---- MODULE Spec2Model ----
(***************************************************************************)
(* State-machine model of the Browserbase / Stagehand MCP server core:     *)
(*   - the usage meter            (src/src/mcp/usage.ts)                   *)
(*   - the screenshot store       (src/unnamed/part_003, resources module) *)
(*   - the default Stagehand      (src/stagehand/src/server.ts)            *)
(*   - session.create / close     (src/src/tools/session.ts)               *)
(* Each subsystem has its own next-state relation and specification; the   *)
(* variables of the other subsystems are left unchanged by it.             *)
(***************************************************************************)
EXTENDS Integers, Sequences, FiniteSets, TLC

(***************************************************************************)
(* Bounds of the model and input alphabets.                                *)
(***************************************************************************)
\* number of record calls explored before the meter is reset
MaxCalls == 3

\* Stagehand instances constructed before the default-session model stops
MaxHandles == 3

\* remote sessions opened per session id before the registry model stops
MaxOpens == 2
MaxSessionCalls == 3

\* pages of a replay payload and actions of a page
MaxPages == 2
MaxActions == 2

\* concurrent request handlers (async calls in flight on the one event loop)
Tasks == {"t1", "t2"}

\* session ids, tool names and operation names handed to the usage meter
UsageSessions == {"s1", "s2"}
ToolNames == {"navigate", "extract"}
Operations == {"nav", "extract"}

\* largest value of options.retries explored besides the default
MaxRetriesOption == 1
MaxChatRetries == 2          \* largest retries a caller of the LLM client passes

\* session ids, screenshot names and payloads handed to the screenshot store
StoreSessions == {"A", "B"}
ScreenshotNames == {"shot1", "shot2"}
Payloads == {"img1", "img2"}

\* values of options.initialDelayMs explored besides the default
InitialDelayOptions == {400, 1500}

\* retryClearScreenshotsForSession, part_003 57-58 and 74
DefaultRetries == 3
DefaultChatRetries == 3
DefaultInitialDelayMs == 50
MaxDelayMs == 1000

\* a value that is absent (undefined)
Undefined == "undefined"

\* the params of usage.stats (part_004 7-29); "s3" never records a call
UsageScopes == {Undefined, "global", "perSession", "all"}
UsageParamSessions == {Undefined, "", "s1", "s3"}
UsageParams ==
  [scope : UsageScopes, sessionId : UsageParamSessions] \cup
  [scope : UsageScopes, sessionId : UsageParamSessions, reset : BOOLEAN]

\* the optional stagehand of an async record call, with its metrics
RecordArgs ==
  {[x \in {} |-> 0],
   [stagehand |-> [metrics |-> [inputTokens |-> 2, outputTokens |-> 1]]]}

\* the registry's ids: the default session and a caller-named one
DefaultSessionId == "main"
SessionIds == {DefaultSessionId, "X"}

\* values of params.sessionId passed to session.create
CreateParams == {Undefined, "", DefaultSessionId, "X"}

\* messages of the errors raised by collaborators (an Error may carry "")
ErrorMessages == {"", "boom"}
NoError == "<none>"
CloseErrors == {NoError, "boom"}
\* what a failing attempt of clearScreenshotsForSession throws
PurgeErrors == {"boom", "bang"}

\* tool and operation names metered while a session is active
SessionToolNames == {"navigate"}
SessionOperations == {"nav"}

\* screenshot names and payloads registered while a session is active
SessionScreenshotNames == {"shot1"}
SessionPayloads == {"img1"}

\* the options objects passed to retryClearScreenshotsForSession
RetryOptions ==
  {[x \in {} |-> 0]} \cup
  {[retries |-> r] : r \in 0 .. MaxRetriesOption} \cup
  {[initialDelayMs |-> d] : d \in InitialDelayOptions} \cup
  {[retries |-> r, initialDelayMs |-> d] :
     r \in 0 .. MaxRetriesOption, d \in InitialDelayOptions}

VARIABLES
  \* ---- usage meter (usage.ts) ----
  globalUsage,        \* operation -> [callCount, toolCallCounts]
  perSessionUsage,    \* sessionId -> [operations: operation -> stats]
  nCalls,             \* record calls since the last reset (bounds the model)
  usageLast,          \* history: the meter's last operation, its inputs and result
  recording,          \* task -> the async record call waiting for its log line
  \* ---- screenshot store (part_003) ----
  screenshots,                 \* name -> base64 payload
  sessionIdToScreenshotNames,  \* sessionId -> set of names
  putBy,                       \* history: name -> session whose put stored the entry
  purge,                       \* the retryClearScreenshotsForSession call in flight
  lastCall,                    \* history: the store operation that ran last
  \* ---- default Stagehand (stagehand/src/server.ts) ----
  stagehand,          \* the module-level handle: 0 (undefined) or an instance
  handleState,        \* instance -> "constructed" | "ready" | "closed" | "initFailed"
  ensureCall,         \* task -> the ensureStagehand call it has in flight
  \* ---- session registry and the session tools (tools/session.ts) ----
  registry,           \* session id -> [state, remoteId, alive]
  opened,             \* history: session id -> remote sessions opened for it
  currentSessionId,   \* the active session id (context.currentSessionId)
  call,               \* task -> the session.create / session.close call in flight
  returned,           \* history: what the call that ended last gave its caller
  nStarted,           \* session calls started so far (bounds the model)
  \* ---- replay fetcher (tools/session.ts 186-253) ----
  replay,             \* the fetchStagehandTokenUsageSummary call: inputs and result
  \* ---- configuration (part_002 39-79, browserbase/src/program.ts) ----
  cli,                \* the resolveConfig call: command-line options and result
  \* ---- custom LLM client (stagehand/src/customOpenAIClient.ts) ----
  chat                \* the createChatCompletion call: inputs, retries left, result

usageVars == <<globalUsage, perSessionUsage, nCalls, usageLast, recording>>
storeVars == <<screenshots, sessionIdToScreenshotNames, putBy, purge, lastCall>>
ensureVars == <<stagehand, handleState, ensureCall>>
replayVars == <<replay>>
configVars == <<cli>>
chatVars == <<chat>>
sessionVars == <<registry, opened, currentSessionId, call, returned, nStarted>>

vars == <<globalUsage, perSessionUsage, nCalls, usageLast, recording,
          screenshots, sessionIdToScreenshotNames, putBy, purge, lastCall,
          stagehand, handleState, ensureCall,
          registry, opened, currentSessionId, call, returned, nStarted,
          replay, cli, chat>>

\* the empty JavaScript object / Map
EmptyMap == [x \in {} |-> 0]

\* sum of the values of a finite map of numbers
RECURSIVE SumValues(_)
SumValues(f) ==
  IF DOMAIN f = {} THEN 0
  ELSE LET k == CHOOSE x \in DOMAIN f : TRUE
       IN f[k] + SumValues([x \in DOMAIN f \ {k} |-> f[x]])

(***************************************************************************)
(* Usage meter                                                             *)
(***************************************************************************)
\* getOrCreateOperationStats that hands out a fresh bucket every time
getOrCreateOperationStats_AlwaysFresh(container, operation) ==
  [o \in DOMAIN container \cup {operation} |->
     IF o = operation THEN [callCount |-> 0, toolCallCounts |-> EmptyMap]
     ELSE container[o]]

\* usage.ts 26-37: create the bucket at zero when the container lacks it
getOrCreateOperationStats(container, operation) ==
  IF operation \in DOMAIN container
    THEN container
    ELSE container @@ (operation :> [callCount |-> 0, toolCallCounts |-> EmptyMap])

\* mutant: the per-tool counter is not incremented
incrementStats_NoTool(stats, toolName) ==
  [stats EXCEPT !.callCount = @ + 1]

\* the per-tool counter is written from a value read before another call's
\* update
incrementStats_LostUpdate(stats, toolName) ==
  [callCount |-> stats.callCount + 1,
   toolCallCounts |->
     IF toolName \in DOMAIN stats.toolCallCounts
       THEN stats.toolCallCounts
       ELSE stats.toolCallCounts @@ (toolName :> 1)]

\* usage.ts 46-48 / 59-61: callCount += 1; toolCallCounts[t] = (.. ?? 0) + 1
incrementStats(stats, toolName) ==
  [callCount |-> stats.callCount + 1,
   toolCallCounts |->
     IF toolName \in DOMAIN stats.toolCallCounts
       THEN [stats.toolCallCounts EXCEPT ![toolName] = @ + 1]
       ELSE stats.toolCallCounts @@ (toolName :> 1)]

\* updateGlobalAggregate that counts the call twice
updateGlobalAggregate_CountsTwice(g, toolName, operation) ==
  LET c == getOrCreateOperationStats(g, operation)
  IN [c EXCEPT ![operation] = incrementStats(incrementStats(@, toolName), toolName)]

\* usage.ts 44-48: update the global aggregate
updateGlobalAggregate(g, toolName, operation) ==
  LET c == getOrCreateOperationStats(g, operation)
  IN [c EXCEPT ![operation] = incrementStats(@, toolName)]

\* mutant: the session bucket is created but never counted
updatePerSessionUsage_NoCount(p, sessionId, toolName, operation) ==
  LET q == IF sessionId \in DOMAIN p THEN p
           ELSE p @@ (sessionId :> [operations |-> EmptyMap])
  IN [q EXCEPT ![sessionId].operations =
        getOrCreateOperationStats(@, operation)]

\* usage.ts 50-61: update the per-session usage
updatePerSessionUsage(p, sessionId, toolName, operation) ==
  LET q == IF sessionId \in DOMAIN p THEN p
           ELSE p @@ (sessionId :> [operations |-> EmptyMap])
      c == getOrCreateOperationStats(q[sessionId].operations, operation)
  IN [q EXCEPT ![sessionId].operations =
        [c EXCEPT ![operation] = incrementStats(@, toolName)]]

\* usage.ts 180-185: the snapshot holds the two live maps
getUsageSnapshot(g, p) == [global |-> g, perSession |-> p]

\* what the meter last did, before anything was recorded
NoUsageCall ==
  [op |-> "none", before |-> getUsageSnapshot(EmptyMap, EmptyMap)]

\* no async record call in flight
NotRecording ==
  [pc |-> "idle", sessionId |-> Undefined, toolName |-> Undefined,
   operation |-> Undefined, cleared |-> FALSE, settled |-> "none",
   stagehand |-> FALSE]

\* usage.ts 39-62: one record call of the synchronous tracker; the update
\* is one step
recordStagehandCall(sessionId, toolName, operation) ==
  /\ nCalls < MaxCalls
  /\ globalUsage' = updateGlobalAggregate(globalUsage, toolName, operation)
  /\ perSessionUsage' =
       updatePerSessionUsage(perSessionUsage, sessionId, toolName, operation)
  /\ nCalls' = nCalls + 1
  /\ usageLast' = [op |-> "record",
                   before |-> getUsageSnapshot(globalUsage, perSessionUsage),
                   sessionId |-> sessionId, toolName |-> toolName,
                   operation |-> operation, args |-> EmptyMap]
  /\ UNCHANGED <<recording, storeVars, ensureVars, replayVars, configVars, chatVars, sessionVars>>

\* usage.ts 153-177: the async tracker updates both maps before its first
\* await (177), so the update is one step; the call then waits for
\* logStagehandMetrics. args carries the optional stagehand
recordStagehandCallAsync(t, sessionId, toolName, operation, args) ==
  /\ nCalls < MaxCalls
  /\ recording[t].pc = "idle"
  /\ globalUsage' = updateGlobalAggregate(globalUsage, toolName, operation)
  /\ perSessionUsage' =
       updatePerSessionUsage(perSessionUsage, sessionId, toolName, operation)
  /\ nCalls' = nCalls + 1
  /\ recording' = [recording EXCEPT ![t] =
       [pc |-> "logging", sessionId |-> sessionId, toolName |-> toolName,
        operation |-> operation, cleared |-> FALSE, settled |-> "none",
        stagehand |-> "stagehand" \in DOMAIN args]]
  /\ usageLast' = [op |-> "record",
                   before |-> getUsageSnapshot(globalUsage, perSessionUsage),
                   sessionId |-> sessionId, toolName |-> toolName,
                   operation |-> operation, args |-> args]
  /\ UNCHANGED <<storeVars, ensureVars, replayVars, configVars, chatVars, sessionVars>>

\* usage.ts 122-151, 177: the metrics (if any) are written to the log and
\* the record call returns; no counter is touched
logStagehandMetrics(t) ==
  /\ recording[t].pc = "logging"
  /\ recording' = [recording EXCEPT ![t] = NotRecording]
  /\ UNCHANGED <<globalUsage, perSessionUsage, nCalls, usageLast,
                 storeVars, ensureVars, replayVars, configVars, chatVars, sessionVars>>

\* usage.ts 126-133, 177: a stagehand was given and reading its metrics
\* throws, or the promise they are rejects; nothing catches it, so the
\* record call rejects with the counters as they are. The key of the
\* rejected call is kept
logStagehandMetricsFails(t) ==
  /\ recording[t].pc = "logging"
  /\ recording[t].stagehand
  /\ recording' = [recording EXCEPT ![t] =
       [recording[t] EXCEPT !.pc = "idle", !.settled = "rejected"]]
  /\ UNCHANGED <<globalUsage, perSessionUsage, nCalls, usageLast,
                 storeVars, ensureVars, replayVars, configVars, chatVars, sessionVars>>

\* resetUsage that leaves the per-session map as it is
resetPerSession_KeepsEntries(p) == p

\* a reset that zeroes the global buckets instead of deleting them
resetGlobal_ZeroesBuckets(g) ==
  [k \in DOMAIN g |-> [callCount |-> 0, toolCallCounts |-> EmptyMap]]

\* usage.ts 188-191: delete every key of globalUsage
resetGlobal(g) == [k \in DOMAIN g \ DOMAIN g |-> g[k]]

\* usage.ts 192-195: delete every key of perSessionUsage
resetPerSession(p) == [k \in DOMAIN p \ DOMAIN p |-> p[k]]

\* usage.ts 187-196: delete every key of both maps; a record call that is
\* waiting for its log line has been counted and is cleared with the rest
resetUsage ==
  /\ globalUsage' = resetGlobal(globalUsage)
  /\ perSessionUsage' = resetPerSession(perSessionUsage)
  /\ nCalls' = 0
  /\ recording' = [t \in Tasks |->
       IF recording[t].pc = "logging" \/ recording[t].settled = "rejected"
         THEN [recording[t] EXCEPT !.cleared = TRUE] ELSE recording[t]]
  /\ usageLast' = [op |-> "resetUsage",
                   before |-> getUsageSnapshot(globalUsage, perSessionUsage)]
  /\ UNCHANGED <<storeVars, ensureVars, replayVars, configVars, chatVars, sessionVars>>

\* part_004 76: "if (params.reset)"
resetRequested(params) == "reset" \in DOMAIN params /\ params.reset

\* part_004 54, 65: "params.sessionId" is truthy
hasSessionId(params) == params.sessionId # Undefined /\ params.sessionId # ""

\* the slice is not narrowed to the session asked for
sessionSlice_AllSessions(perSession, sessionId) == perSession

\* part_004 56-60, 68-72: { [sessionId]: perSession[sessionId] ?? { operations: {} } }
sessionSlice(perSession, sessionId) ==
  [s \in {sessionId} |->
     IF s \in DOMAIN perSession THEN perSession[s]
     ELSE [operations |-> EmptyMap]]

\* part_004 46-74 and 84: result is built from the snapshot taken first;
\* snapshot.global and snapshot.perSession are the live maps, read when
\* JSON.stringify runs at the return (atReturn), while a session's slice
\* was looked up when the result was built (taken)
usageResult(params, taken, atReturn) ==
  LET scope == IF params.scope = Undefined THEN "all" ELSE params.scope
  IN CASE scope = "global" -> [global |-> atReturn.global]
       [] scope = "perSession" /\ hasSessionId(params) ->
            [perSession |-> sessionSlice(taken.perSession, params.sessionId)]
       [] scope = "perSession" -> [perSession |-> atReturn.perSession]
       [] scope = "all" /\ hasSessionId(params) ->
            [global |-> atReturn.global,
             perSession |-> sessionSlice(taken.perSession, params.sessionId)]
       [] OTHER -> atReturn

\* usage.stats that creates the entry of the session it is asked about
countersAfterUsage_CreatesEntry(params, g, p) ==
  getUsageSnapshot(g,
    IF hasSessionId(params) /\ params.sessionId \notin DOMAIN p
      THEN [s \in DOMAIN p \cup {params.sessionId} |->
              IF s \in DOMAIN p THEN p[s] ELSE [operations |-> EmptyMap]]
      ELSE p)

\* part_004 76-78: the counters after the call
countersAfterUsage(params, g, p) ==
  IF resetRequested(params)
    THEN getUsageSnapshot(resetGlobal(g), resetPerSession(p))
    ELSE getUsageSnapshot(g, p)

\* part_004 40-94: usage.stats; the action has no await, it is one step
handleUsage(params) ==
  LET taken == getUsageSnapshot(globalUsage, perSessionUsage)
      after == countersAfterUsage(params, globalUsage, perSessionUsage)
  IN /\ globalUsage' = after.global
     /\ perSessionUsage' = after.perSession
     /\ nCalls' = IF resetRequested(params) THEN 0 ELSE nCalls
     /\ recording' = [t \in Tasks |->
          IF /\ resetRequested(params)
             /\ \/ recording[t].pc = "logging"
                \/ recording[t].settled = "rejected"
            THEN [recording[t] EXCEPT !.cleared = TRUE] ELSE recording[t]]
     /\ usageLast' = [op |-> "usage.stats", before |-> taken,
                      params |-> params,
                      result |-> usageResult(params, taken, after)]
     /\ UNCHANGED <<storeVars, ensureVars, replayVars, configVars, chatVars, sessionVars>>

UsageInit ==
  /\ globalUsage = EmptyMap
  /\ perSessionUsage = EmptyMap
  /\ nCalls = 0
  /\ usageLast = NoUsageCall
  /\ recording = [t \in Tasks |-> NotRecording]

UsageRecord ==
  \E s \in UsageSessions, t \in ToolNames, op \in Operations :
    recordStagehandCall(s, t, op)

HandleUsage == \E params \in UsageParams : handleUsage(params)

UsageNext ==
  \/ UsageRecord
  \/ resetUsage
  \/ HandleUsage

UsageRecordAsync ==
  \E t \in Tasks, s \in UsageSessions, tool \in ToolNames,
     op \in Operations, args \in RecordArgs :
    recordStagehandCallAsync(t, s, tool, op, args)

LogStagehandMetrics == \E t \in Tasks : logStagehandMetrics(t)
LogStagehandMetricsFails == \E t \in Tasks : logStagehandMetricsFails(t)

UsageAsyncNext ==
  \/ UsageRecordAsync
  \/ LogStagehandMetrics
  \/ resetUsage

\* record calls of one tool, with or without a stagehand
UsageRecordConcurrent ==
  \E t \in Tasks, s \in UsageSessions, op \in Operations, args \in RecordArgs :
    recordStagehandCallAsync(t, s, "extract", op, args)

\* concurrent record calls whose metrics read may fail
UsageConcurrentNext ==
  \/ UsageRecordConcurrent
  \/ LogStagehandMetrics
  \/ LogStagehandMetricsFails
  \/ resetUsage

(***************************************************************************)
(* Screenshot store (resources module)                                     *)
(***************************************************************************)
\* f without the keys in D
Without(f, D) == [x \in DOMAIN f \ D |-> f[x]]

\* f with key k set to v (Map.set)
MapSet(f, k, v) == [x \in DOMAIN f \cup {k} |-> IF x = k THEN v ELSE f[x]]

\* the names tracked for a session, the empty set when it has no set
NamesOf(idx, sessionId) ==
  IF sessionId \in DOMAIN idx THEN idx[sessionId] ELSE {}

\* part_003 20-32
registerScreenshot(sessionId, name, base64) ==
  /\ screenshots' = MapSet(screenshots, name, base64)
  /\ sessionIdToScreenshotNames' =
       MapSet(sessionIdToScreenshotNames, sessionId,
              NamesOf(sessionIdToScreenshotNames, sessionId) \cup {name})
  /\ putBy' = MapSet(putBy, name, sessionId)
  /\ lastCall' = [op |-> "registerScreenshot", sessionId |-> sessionId]
  /\ UNCHANGED <<purge, usageVars, ensureVars, replayVars, configVars, chatVars, sessionVars>>

\* mutant: the session's set is dropped but its screenshots are kept
clearedScreenshots_KeepAll(shots, idx, sessionId) ==
  shots

\* part_003 35-39: the screenshots map after a complete clear of a session
clearedScreenshots(shots, idx, sessionId) ==
  Without(shots, NamesOf(idx, sessionId))

\* part_003 40: the index after a complete clear of a session
clearedIndex(idx, sessionId) ==
  Without(idx, {sessionId})

\* part_003 34-42, called directly
clearScreenshotsForSession(sessionId) ==
  /\ screenshots' =
       clearedScreenshots(screenshots, sessionIdToScreenshotNames, sessionId)
  /\ sessionIdToScreenshotNames' =
       clearedIndex(sessionIdToScreenshotNames, sessionId)
  /\ putBy' = [n \in DOMAIN screenshots' |-> putBy[n]]
  /\ lastCall' = [op |-> "clearScreenshotsForSession", sessionId |-> sessionId]
  /\ UNCHANGED <<purge, usageVars, ensureVars, replayVars, configVars, chatVars, sessionVars>>

\* part_003 44-47
clearAllScreenshots ==
  /\ screenshots' = EmptyMap
  /\ sessionIdToScreenshotNames' = EmptyMap
  /\ putBy' = EmptyMap
  /\ lastCall' = [op |-> "clearAllScreenshots", sessionId |-> Undefined]
  /\ UNCHANGED <<purge, usageVars, ensureVars, replayVars, configVars, chatVars, sessionVars>>

Min(a, b) == IF a < b THEN a ELSE b

PurgeIdle ==
  [pc |-> "idle", sessionId |-> Undefined, retries |-> 0, attempt |-> 0,
   delay |-> 0, waits |-> <<>>, removed |-> {},
   tries |-> 0, firstCaught |-> NoError, caught |-> NoError,
   thrown |-> NoError, initialDelayMs |-> 0]

\* the wrapper gives up with the error caught first
surfacedError_FirstCaught(firstCaught, caught) == firstCaught

\* part_003 67-70: "throw err", err being what the current attempt threw
surfacedError(firstCaught, caught) == caught

\* part_003 53-61: read the options, attempt = 0, delay = initialDelayMs
retryStart(sessionId, options) ==
  /\ purge.pc = "idle"
  /\ purge' = [pc |-> "attempt", sessionId |-> sessionId,
               retries |-> IF "retries" \in DOMAIN options
                             THEN options.retries ELSE DefaultRetries,
               attempt |-> 0,
               delay |-> IF "initialDelayMs" \in DOMAIN options
                           THEN options.initialDelayMs
                           ELSE DefaultInitialDelayMs,
               waits |-> <<>>, removed |-> {},
               tries |-> 0, firstCaught |-> NoError, caught |-> NoError,
               thrown |-> NoError,
               initialDelayMs |-> IF "initialDelayMs" \in DOMAIN options
                                    THEN options.initialDelayMs
                                    ELSE DefaultInitialDelayMs]
  /\ UNCHANGED <<screenshots, sessionIdToScreenshotNames, putBy, lastCall>>
  /\ UNCHANGED <<usageVars, ensureVars, replayVars, configVars, chatVars, sessionVars>>

\* part_003 64-66: the attempt completes and the wrapper returns
retryAttemptSucceeds ==
  /\ purge.pc = "attempt"
  /\ screenshots' = clearedScreenshots(screenshots, sessionIdToScreenshotNames,
                                       purge.sessionId)
  /\ sessionIdToScreenshotNames' =
       clearedIndex(sessionIdToScreenshotNames, purge.sessionId)
  /\ putBy' = [n \in DOMAIN screenshots' |-> putBy[n]]
  /\ lastCall' = [op |-> "clearScreenshotsForSession",
                  sessionId |-> purge.sessionId]
  /\ purge' = [purge EXCEPT
       !.pc = "returned",
       !.tries = @ + 1,
       !.removed = @ \cup (NamesOf(sessionIdToScreenshotNames, purge.sessionId)
                             \cap DOMAIN screenshots)]
  /\ UNCHANGED <<usageVars, ensureVars, replayVars, configVars, chatVars, sessionVars>>

\* part_003 37-39 and 67-72: the attempt throws after deleting the names in
\* deleted (the loop stopped part-way, the set is still registered); the
\* wrapper gives up (70) or starts the backoff wait (72)
retryAttemptFails(deleted, err) ==
  /\ purge.pc = "attempt"
  /\ deleted \subseteq NamesOf(sessionIdToScreenshotNames, purge.sessionId)
  /\ screenshots' = Without(screenshots, deleted)
  /\ putBy' = [n \in DOMAIN screenshots' |-> putBy[n]]
  /\ lastCall' = [op |-> "clearScreenshotsForSession",
                  sessionId |-> purge.sessionId]
  /\ LET first == IF purge.firstCaught = NoError THEN err
                   ELSE purge.firstCaught
         p == [purge EXCEPT !.tries = @ + 1,
                            !.firstCaught = first,
                            !.caught = err,
                            !.removed = @ \cup (deleted \cap DOMAIN screenshots)]
     IN purge' = IF purge.attempt >= purge.retries
                   THEN [p EXCEPT !.pc = "threw",
                                  !.thrown = surfacedError(first, err)]
                   ELSE [p EXCEPT !.pc = "sleeping",
                                  !.waits = Append(@, purge.delay)]
  /\ UNCHANGED <<sessionIdToScreenshotNames, usageVars, ensureVars, replayVars, configVars, chatVars, sessionVars>>

\* part_003 72-74: the timer fires; attempt += 1; delay = min(delay * 2, 1000)
retryWake ==
  /\ purge.pc = "sleeping"
  /\ purge' = [purge EXCEPT !.pc = "attempt",
                            !.attempt = @ + 1,
                            !.delay = Min(@ * 2, MaxDelayMs)]
  /\ UNCHANGED <<screenshots, sessionIdToScreenshotNames, putBy, lastCall>>
  /\ UNCHANGED <<usageVars, ensureVars, replayVars, configVars, chatVars, sessionVars>>

\* the caller of the wrapper has consumed its outcome
retryDone ==
  /\ purge.pc \in {"returned", "threw"}
  /\ purge' = PurgeIdle
  /\ UNCHANGED <<screenshots, sessionIdToScreenshotNames, putBy, lastCall>>
  /\ UNCHANGED <<usageVars, ensureVars, replayVars, configVars, chatVars, sessionVars>>

StoreInit ==
  /\ screenshots = EmptyMap
  /\ sessionIdToScreenshotNames = EmptyMap
  /\ putBy = EmptyMap
  /\ purge = PurgeIdle
  /\ lastCall = [op |-> "none", sessionId |-> Undefined]

StoreRegister ==
  \E s \in StoreSessions, n \in ScreenshotNames, b \in Payloads :
    registerScreenshot(s, n, b)

StoreClear == \E s \in StoreSessions : clearScreenshotsForSession(s)

StoreRetryStart == \E s \in StoreSessions, o \in RetryOptions : retryStart(s, o)

StoreRetryAttemptFails ==
  \E D \in SUBSET ScreenshotNames, err \in PurgeErrors : retryAttemptFails(D, err)

StoreNext ==
  \/ StoreRegister
  \/ StoreClear
  \/ clearAllScreenshots
  \/ StoreRetryStart
  \/ retryAttemptSucceeds
  \/ StoreRetryAttemptFails
  \/ retryWake
  \/ retryDone

\* one screenshot name, registered by either session
PurgeRegister ==
  \E s \in StoreSessions : registerScreenshot(s, "shot1", "img1")

\* the retrying purge with the store being filled while it runs
PurgeNext ==
  \/ PurgeRegister
  \/ StoreRetryStart
  \/ retryAttemptSucceeds
  \/ StoreRetryAttemptFails
  \/ retryWake
  \/ retryDone

(***************************************************************************)
(* Default Stagehand instance (stagehand/src/server.ts)                    *)
(***************************************************************************)
\* what page.evaluate threw: an Error with a message, or another value
\* whose text is kept in the same field; a message is the sequence of its
\* parts
NoCheckError == [isError |-> FALSE, message |-> <<>>]
CheckErrors ==
  { [isError |-> TRUE,
     message |-> <<"page.evaluate: ",
                   "Target page, context or browser has been closed">>],
    [isError |-> TRUE, message |-> <<"Session expired">>],
    [isError |-> TRUE, message |-> <<"Execution ", "context destroyed">>],
    [isError |-> TRUE, message |-> <<"Timeout 30000ms exceeded">>],
    [isError |-> TRUE, message |-> <<"session expired">>],
    [isError |-> FALSE, message |-> <<"Session expired">>] }

\* String.prototype.includes, on messages cut at the boundaries of the
\* phrases looked for
includes(message, phrase) ==
  \E i \in 1 .. Len(message) : message[i] = phrase

\* every Error invalidates the session
sessionIsInvalid_AnyError(error) == error.isError

\* server.ts 144-151: the error says the session is gone
sessionIsInvalid(error) ==
  /\ error.isError
  /\ \/ includes(error.message,
                 "Target page, context or browser has been closed")
     \/ includes(error.message, "Session expired")
     \/ includes(error.message, "context destroyed")

NoReturn ==
  [kind |-> "none", h |-> 0, initialised |-> FALSE, error |-> NoCheckError]
Threw ==
  [kind |-> "error", h |-> 0, initialised |-> FALSE, error |-> NoCheckError]

\* server.ts 135, 141, 155: "return stagehand" reads the module-level variable
\* when the call resumes
ReturnStagehand(cached, states) ==
  [kind |-> "ok", h |-> cached, initialised |-> states[cached] = "ready",
   error |-> NoCheckError]

EnsureIdle == [pc |-> "idle", h |-> 0, ret |-> NoReturn]

\* server.ts 132-134: no cached handle: construct one, cache it, await init()
ensureConstructs(t) ==
  /\ ensureCall[t].pc = "idle"
  /\ stagehand = 0
  /\ Len(handleState) < MaxHandles
  /\ handleState' = Append(handleState, "constructed")
  /\ stagehand' = Len(handleState) + 1
  /\ ensureCall' = [ensureCall EXCEPT ![t] =
        [pc |-> "init", h |-> Len(handleState) + 1, ret |-> NoReturn]]
  /\ UNCHANGED <<usageVars, storeVars, sessionVars, replayVars, configVars, chatVars>>

\* server.ts 139-140: a handle is cached: await page.evaluate on it
ensureChecks(t) ==
  /\ ensureCall[t].pc = "idle"
  /\ stagehand # 0
  /\ handleState[stagehand] \in {"ready", "closed"}
  /\ ensureCall' = [ensureCall EXCEPT ![t] =
        [pc |-> "evaluate", h |-> stagehand, ret |-> NoReturn]]
  /\ UNCHANGED <<stagehand, handleState, usageVars, storeVars, sessionVars, replayVars, configVars, chatVars>>

\* server.ts 140, 142-157, 159-166: the cached instance has not completed
\* init(), so reading its page throws at once; the message is none of the
\* three that trigger a reinitialisation and the error is re-thrown
ensureChecksUninitialised(t) ==
  /\ ensureCall[t].pc = "idle"
  /\ stagehand # 0
  /\ handleState[stagehand] \in {"constructed", "initFailed"}
  /\ ensureCall' = [ensureCall EXCEPT ![t] =
        [pc |-> "idle", h |-> 0, ret |-> Threw]]
  /\ UNCHANGED <<stagehand, handleState, usageVars, storeVars, sessionVars, replayVars, configVars, chatVars>>

\* server.ts 140-141: the check succeeds
evaluateSucceeds(t) ==
  /\ ensureCall[t].pc = "evaluate"
  /\ handleState[ensureCall[t].h] = "ready"
  /\ ensureCall' = [ensureCall EXCEPT ![t] =
        [pc |-> "idle", h |-> 0, ret |-> ReturnStagehand(stagehand, handleState)]]
  /\ UNCHANGED <<stagehand, handleState, usageVars, storeVars, sessionVars, replayVars, configVars, chatVars>>

\* server.ts 142-154: the check fails with a "closed / expired / destroyed"
\* message: construct a new instance, cache it, await init()
evaluateFailsExpired(t, error) ==
  /\ ensureCall[t].pc = "evaluate"
  /\ handleState[ensureCall[t].h] = "closed"
  /\ sessionIsInvalid(error)
  /\ Len(handleState) < MaxHandles
  /\ handleState' = Append(handleState, "constructed")
  /\ stagehand' = Len(handleState) + 1
  /\ ensureCall' = [ensureCall EXCEPT ![t] =
        [pc |-> "init", h |-> Len(handleState) + 1,
         ret |-> [NoReturn EXCEPT !.error = error]]]
  /\ UNCHANGED <<usageVars, storeVars, sessionVars, replayVars, configVars, chatVars>>

\* server.ts 157, 159-166: the check fails with any other error: re-thrown
evaluateFailsOther(t, error) ==
  /\ ensureCall[t].pc = "evaluate"
  /\ ~sessionIsInvalid(error)
  /\ ensureCall' = [ensureCall EXCEPT ![t] =
        [pc |-> "idle", h |-> 0, ret |-> [Threw EXCEPT !.error = error]]]
  /\ UNCHANGED <<stagehand, handleState, usageVars, storeVars, sessionVars, replayVars, configVars, chatVars>>

\* server.ts 134-135, 154-155: init() opened the remote session
initSucceeds(t) ==
  /\ ensureCall[t].pc = "init"
  /\ handleState' = [handleState EXCEPT ![ensureCall[t].h] = "ready"]
  /\ ensureCall' = [ensureCall EXCEPT ![t] =
        [pc |-> "idle", h |-> 0, ret |-> ReturnStagehand(stagehand, handleState')]]
  /\ UNCHANGED <<stagehand, usageVars, storeVars, sessionVars, replayVars, configVars, chatVars>>

\* server.ts 134 / 154, 159-166: init() rejects; the error is logged and
\* re-thrown; the module-level variable is not touched
initFails(t) ==
  /\ ensureCall[t].pc = "init"
  /\ handleState' = [handleState EXCEPT ![ensureCall[t].h] = "initFailed"]
  /\ ensureCall' = [ensureCall EXCEPT ![t] =
        [pc |-> "idle", h |-> 0, ret |-> Threw]]
  /\ UNCHANGED <<stagehand, usageVars, storeVars, sessionVars, replayVars, configVars, chatVars>>

\* the provider ends a remote session (timeout, browser closed)
sessionExpires(h) ==
  /\ h \in DOMAIN handleState
  /\ handleState[h] = "ready"
  /\ handleState' = [handleState EXCEPT ![h] = "closed"]
  /\ UNCHANGED <<stagehand, ensureCall, usageVars, storeVars, sessionVars, replayVars, configVars, chatVars>>

EnsureInit ==
  /\ stagehand = 0
  /\ handleState = <<>>
  /\ ensureCall = [t \in Tasks |-> EnsureIdle]

EnsureConstructs == \E t \in Tasks : ensureConstructs(t)
EnsureChecks == \E t \in Tasks : ensureChecks(t)
EnsureChecksUninitialised == \E t \in Tasks : ensureChecksUninitialised(t)
EvaluateSucceeds == \E t \in Tasks : evaluateSucceeds(t)
EvaluateFailsExpired ==
  \E t \in Tasks, error \in CheckErrors : evaluateFailsExpired(t, error)
EvaluateFailsOther ==
  \E t \in Tasks, error \in CheckErrors : evaluateFailsOther(t, error)
InitSucceeds == \E t \in Tasks : initSucceeds(t)
InitFails == \E t \in Tasks : initFails(t)
SessionExpires == \E h \in 1 .. MaxHandles : sessionExpires(h)

EnsureNext ==
  \/ EnsureConstructs
  \/ EnsureChecks
  \/ EnsureChecksUninitialised
  \/ EvaluateSucceeds
  \/ EvaluateFailsExpired
  \/ EvaluateFailsOther
  \/ InitSucceeds
  \/ InitFails
  \/ SessionExpires

(***************************************************************************)
(* Session registry (SessionManager: its source is not part of src/, it is *)
(* modelled from the specification, sections 3, 4.1, 5 and 7) and the      *)
(* session tools of tools/session.ts that call it.                          *)
(***************************************************************************)
Absent == [state |-> "ABSENT", remoteId |-> 0, alive |-> FALSE]

CallIdle ==
  [op |-> "none", pc |-> "idle", target |-> Undefined, session |-> 0,
   arrivedAt |-> 0, arrival |-> "none", lookup |-> "none",
   cleanupSuccessful |-> FALSE, raised |-> NoError, purgeFailed |-> FALSE,
   resumeId |-> Undefined, via |-> "none", fetches |-> 0]

NothingReturned ==
  [op |-> "none", target |-> Undefined, lookup |-> "none",
   failedAt |-> "none", cleanupErrorMessage |-> "", result |-> "none",
   tokenUsageTotals |-> "none", fetches |-> 0]

\* session.ts 80-87: "if (params.sessionId)" is false for undefined and ""
targetSessionId(sessionId) ==
  IF sessionId # Undefined /\ sessionId # "" THEN sessionId ELSE DefaultSessionId

\* every session.create goes to createNewBrowserSession and resumes
createRoute_AlwaysResumes(sessionId) ==
  [via |-> "createNewBrowserSession",
   id |-> targetSessionId(sessionId), resumeId |-> targetSessionId(sessionId)]

\* session.ts 90-102: the default id takes ensureDefaultSessionInternal, any
\* other id createNewBrowserSession(target, config, params.sessionId)
createRoute(sessionId) ==
  IF targetSessionId(sessionId) = DefaultSessionId
    THEN [via |-> "ensureDefaultSessionInternal",
          id |-> DefaultSessionId, resumeId |-> Undefined]
    ELSE [via |-> "createNewBrowserSession",
          id |-> targetSessionId(sessionId), resumeId |-> sessionId]

\* a creation in flight is not joined, the caller opens its own
acquireMode_NoJoin(entry, id) ==
  CASE entry.state = "ACTIVE" /\ entry.alive -> "reuse"
    [] entry.state = "ACTIVE" /\ ~entry.alive /\ id = DefaultSessionId -> "open"
    [] entry.state = "ACTIVE" /\ ~entry.alive /\ id # DefaultSessionId -> "expired"
    [] OTHER -> "open"

\* spec 4.1: createOrResumeSession / ensureDefaultSession on an entry: a live
\* session is returned unchanged, a creation in flight is joined, a defunct
\* default handle is reopened, a defunct named one is SessionExpiredError
acquireMode(entry, id) ==
  CASE entry.state = "ACTIVE" /\ entry.alive -> "reuse"
    [] entry.state = "ACTIVE" /\ ~entry.alive /\ id = DefaultSessionId -> "open"
    [] entry.state = "ACTIVE" /\ ~entry.alive /\ id # DefaultSessionId -> "expired"
    [] entry.state = "CREATING" -> "join"
    [] OTHER -> "open"

\* a lookup that creates the missing session whatever createIfMissing says
lookupMode_AlwaysCreates(entry, id, createIfMissing) ==
  CASE entry.state = "ABSENT" -> "reopen"
    [] entry.alive -> "found"
    [] id = DefaultSessionId -> "reopen"
    [] OTHER -> "expired"

\* spec 4.1: getSession(id, config, createIfMissing); "reopen" stands for
\* opening a session under the id
lookupMode(entry, id, createIfMissing) ==
  CASE entry.state = "ABSENT" /\ ~createIfMissing -> "notFound"
    [] entry.state = "ABSENT" /\ createIfMissing -> "reopen"
    [] entry.alive -> "found"
    [] id = DefaultSessionId -> "reopen"
    [] OTHER -> "expired"

\* cleaning up an id without a live session is an error
cleanupMode_ThrowsWhenAbsent(entry) ==
  IF entry.state = "ABSENT" THEN "throw" ELSE "close"

\* spec 4.1: cleanupSession(id) is a no-op when no session exists
cleanupMode(entry) ==
  IF entry.state = "ABSENT" THEN "noop" ELSE "close"

\* a purge that exhausted its retries keeps the entry registered
entryAfterCleanup_KeepOnPurgeFailure(entry, purgeThrew) ==
  IF purgeThrew THEN [entry EXCEPT !.state = "ACTIVE"] ELSE Absent

\* spec 4.1 (d), 4.2: the entry is removed whether or not the purge failed
entryAfterCleanup(entry, purgeThrew) ==
  Absent

\* a cleanup error is logged and the close still returns a result
closeOutcome_NeverThrows(cleanupErrorMessage, cleanupSuccessful) ==
  IF cleanupSuccessful THEN "success" ELSE "info"

\* every caught error fails the close, also one caught after the cleanup
closeOutcome_ThrowsOnAnyError(cleanupErrorMessage, cleanupSuccessful) ==
  IF cleanupErrorMessage # "" THEN "error"
  ELSE IF cleanupSuccessful THEN "success"
  ELSE "info"

\* session.ts 314-337: throw when cleanup failed before it succeeded (the
\* message is non-empty), the success text after a cleanup, else the
\* "no active session" information
closeOutcome(cleanupErrorMessage, cleanupSuccessful) ==
  IF cleanupErrorMessage # "" /\ ~cleanupSuccessful THEN "error"
  ELSE IF cleanupSuccessful THEN "success"
  ELSE "info"

\* what the caller of a tool or of the registry observes when the call ends
Returns(c, failedAt, cleanupErrorMessage, result) ==
  [op |-> c.op, target |-> c.target, lookup |-> c.lookup,
   failedAt |-> failedAt, cleanupErrorMessage |-> cleanupErrorMessage,
   result |-> result, tokenUsageTotals |-> "none", fetches |-> c.fetches]

\* session.ts 294-337: the close ends with the error it caught (if any)
CloseReturns(c, failedAt, cleanupErrorMessage) ==
  Returns(c, failedAt, cleanupErrorMessage,
          closeOutcome(cleanupErrorMessage, c.cleanupSuccessful))

\* a task that is not in a call starts one (the calls are counted)
Fresh(t) ==
  /\ call[t].pc = "idle"
  /\ nStarted < MaxSessionCalls
  /\ nStarted' = nStarted + 1

\* session.ts 68-102: session.create routes the id and asks the registry
handleCreateSession(t, sessionId) ==
  LET r == createRoute(sessionId)
      id == r.id
      entry == registry[id]
      mode == acquireMode(entry, id)
      c == [CallIdle EXCEPT !.op = "create", !.target = id,
                            !.resumeId = r.resumeId, !.via = r.via,
                            !.arrivedAt = opened[id],
                            !.arrival = IF entry.state = "ACTIVE" /\ entry.alive
                                          THEN "live"
                                        ELSE IF entry.state = "CREATING"
                                          THEN "creating"
                                        ELSE "none"]
  IN /\ Fresh(t)
     /\ entry.state # "CLOSING"
     /\ CASE mode = "reuse" ->
               /\ call' = [call EXCEPT ![t] =
                    [c EXCEPT !.pc = "debug", !.session = entry.remoteId]]
               /\ currentSessionId' = id
               /\ UNCHANGED <<registry, opened, returned>>
          [] mode = "join" ->
               /\ call' = [call EXCEPT ![t] = [c EXCEPT !.pc = "awaitCreate"]]
               /\ UNCHANGED <<registry, opened, currentSessionId, returned>>
          [] mode = "expired" ->
               /\ call' = [call EXCEPT ![t] = CallIdle]
               /\ returned' = Returns(c, "create", "", "error")
               /\ registry' = [registry EXCEPT ![id] = Absent]
               /\ currentSessionId' =
                    IF currentSessionId = id THEN DefaultSessionId
                    ELSE currentSessionId
               /\ UNCHANGED opened
          [] OTHER ->
               /\ SumValues(opened) < MaxOpens
               /\ call' = [call EXCEPT ![t] = [c EXCEPT !.pc = "opening"]]
               /\ registry' = [registry EXCEPT ![id] =
                    [state |-> "CREATING", remoteId |-> 0, alive |-> FALSE]]
               /\ UNCHANGED <<opened, currentSessionId, returned>>
     /\ UNCHANGED <<usageVars, storeVars, ensureVars, replayVars, configVars, chatVars>>

\* what a call does when the registry hands it the session it waited for
AfterSession(c, k) ==
  IF c.op = "create" THEN [c EXCEPT !.pc = "debug", !.session = k]
  ELSE IF c.op = "get" THEN [c EXCEPT !.pc = "lookup", !.session = k]
  ELSE [c EXCEPT !.pc = "lookup"]

\* spec 4.1: the remote open / resume completes: the entry is committed and
\* every caller waiting on this creation receives the same session
remoteOpenSucceeds(t) ==
  LET id == call[t].target
      k == opened[id] + 1
  IN /\ call[t].pc = "opening"
     /\ opened' = [opened EXCEPT ![id] = k]
     /\ registry' = [registry EXCEPT ![id] =
          [state |-> "ACTIVE", remoteId |-> k, alive |-> TRUE]]
     /\ currentSessionId' = id
     /\ call' = [u \in Tasks |->
          IF u = t \/ (call[u].pc = "awaitCreate" /\ call[u].target = id)
            THEN AfterSession(call[u], k) ELSE call[u]]
     /\ UNCHANGED <<returned, usageVars, storeVars, ensureVars, replayVars, configVars, chatVars, nStarted>>

\* a failed resume is answered by opening a fresh remote session instead
afterOpenFailure_FallsBackToFresh(resumeId) ==
  IF resumeId # Undefined THEN "openFresh" ELSE "reject"

\* spec 4.1: a failed open or resume is surfaced as SessionCreationError,
\* never replaced by a fresh session
afterOpenFailure(resumeId) == "reject"

\* spec 4.1, 7: the remote open / resume fails: the entry is rolled back and
\* SessionCreationError is raised in every caller waiting on this creation
remoteOpenFails(t, msg) ==
  LET id == call[t].target
  IN /\ call[t].pc = "opening"
     /\ IF afterOpenFailure(call[t].resumeId) = "reject"
          THEN /\ registry' = [registry EXCEPT ![id] = Absent]
               /\ call' = [u \in Tasks |->
                    IF u = t \/ (call[u].pc = "awaitCreate" /\ call[u].target = id)
                      THEN [call[u] EXCEPT !.pc = "rejected", !.raised = msg]
                      ELSE call[u]]
          ELSE /\ call' = [call EXCEPT ![t] = [@ EXCEPT !.resumeId = Undefined]]
               /\ UNCHANGED registry
     /\ UNCHANGED <<opened, currentSessionId, returned,
                    usageVars, storeVars, ensureVars, replayVars, configVars, chatVars, nStarted>>

\* session.ts 147-155 (create: the error is re-thrown as "Failed to create
\* Browserbase session") and 299-305, 316-320 (close: logged, then thrown)
creationRejected(t) ==
  LET c == call[t]
  IN /\ c.pc = "rejected"
     /\ call' = [call EXCEPT ![t] = CallIdle]
     /\ returned' = IF c.op = "create"
                      THEN Returns(c, "create", "", "error")
                    ELSE IF c.op = "get"
                      THEN Returns(c, "lookup", "", "error")
                      ELSE CloseReturns(c, "lookup", c.raised)
     /\ UNCHANGED <<registry, opened, currentSessionId,
                    usageVars, storeVars, ensureVars, replayVars, configVars, chatVars, nStarted>>

\* session.ts 104-146: the session object is valid, bb.sessions.debug answers
debugUrlFetched(t) ==
  /\ call[t].pc = "debug"
  /\ call' = [call EXCEPT ![t] = CallIdle]
  /\ returned' = Returns(call[t], "none", "", "ok")
  /\ UNCHANGED <<registry, opened, currentSessionId,
                 usageVars, storeVars, ensureVars, replayVars, configVars, chatVars, nStarted>>

\* session.ts 127, 147-155: bb.sessions.debug rejects; the error is re-thrown
\* and the registry is not touched
debugUrlFails(t) ==
  /\ call[t].pc = "debug"
  /\ call' = [call EXCEPT ![t] = CallIdle]
  /\ returned' = Returns(call[t], "debug", "", "error")
  /\ UNCHANGED <<registry, opened, currentSessionId,
                 usageVars, storeVars, ensureVars, replayVars, configVars, chatVars, nStarted>>

\* session.ts 255-271: session.close reads the current id and looks it up
handleCloseSession(t) ==
  /\ Fresh(t)
  /\ call' = [call EXCEPT ![t] =
       [CallIdle EXCEPT !.op = "close", !.pc = "lookup",
                        !.target = currentSessionId]]
  /\ UNCHANGED <<registry, opened, currentSessionId, returned,
                 usageVars, storeVars, ensureVars, replayVars, configVars, chatVars>>

\* spec 4.1: a tool asks for the session of an id with createIfMissing = true
getSession(t, id) ==
  /\ Fresh(t)
  /\ call' = [call EXCEPT ![t] =
       [CallIdle EXCEPT !.op = "get", !.pc = "lookup", !.target = id,
                        !.arrivedAt = opened[id],
                        !.arrival = IF registry[id].state = "ABSENT"
                                      THEN "none" ELSE "live"]]
  /\ UNCHANGED <<registry, opened, currentSessionId, returned,
                 usageVars, storeVars, ensureVars, replayVars, configVars, chatVars>>

\* the entry is dropped as soon as the close starts
BeginClosing_RemovesAtOnce(id) ==
  [registry EXCEPT ![id] = Absent]

\* the registry starts closing an ACTIVE entry (spec 4.1 (a))
BeginClosing(id) ==
  [registry EXCEPT ![id] = [@ EXCEPT !.state = "CLOSING"]]

\* session.ts 266-278, 294-305: getSession(previousSessionId, config, false)
\* answers; a session with its stagehand goes on to cleanupSession
getSessionReturns(t, msg, remoteIdKnown) ==
  LET id == call[t].target
      entry == registry[id]
      c == call[t]
      mode == lookupMode(entry, id, c.op = "get")
  IN /\ c.op \in {"close", "get"} /\ c.pc = "lookup"
     /\ entry.state \notin {"CREATING", "CLOSING"}
     /\ CASE mode = "notFound" ->
               /\ call' = [call EXCEPT ![t] = CallIdle]
               /\ returned' = CloseReturns([c EXCEPT !.lookup = "notFound"],
                                          "none", "")
               /\ UNCHANGED <<registry, currentSessionId>>
          [] mode = "found" /\ c.op = "get" ->
               /\ call' = [call EXCEPT ![t] = CallIdle]
               /\ returned' = Returns([c EXCEPT !.lookup = "found"],
                                     "none", "", "ok")
               /\ UNCHANGED <<registry, currentSessionId>>
          [] mode = "expired" /\ c.op = "get" ->
               /\ call' = [call EXCEPT ![t] = CallIdle]
               /\ returned' = Returns([c EXCEPT !.lookup = "expired"],
                                     "lookup", "", "error")
               /\ registry' = [registry EXCEPT ![id] = Absent]
               /\ currentSessionId' = DefaultSessionId
          [] mode = "found" ->
               /\ call' = [call EXCEPT ![t] =
                    [c EXCEPT !.pc = "closingHandle", !.lookup = "found",
                              !.session = IF remoteIdKnown THEN entry.remoteId
                                          ELSE 0]]
               /\ registry' = BeginClosing(id)
               /\ UNCHANGED <<currentSessionId, returned>>
          [] mode = "expired" ->
               /\ call' = [call EXCEPT ![t] = CallIdle]
               /\ returned' = CloseReturns([c EXCEPT !.lookup = "expired"],
                                          "lookup", msg)
               /\ registry' = [registry EXCEPT ![id] = Absent]
               /\ currentSessionId' = DefaultSessionId
          [] OTHER ->
               /\ SumValues(opened) < MaxOpens
               /\ call' = [call EXCEPT ![t] = [c EXCEPT !.pc = "opening"]]
               /\ registry' = [registry EXCEPT ![id] =
                    [state |-> "CREATING", remoteId |-> 0, alive |-> FALSE]]
               /\ UNCHANGED <<currentSessionId, returned>>
     /\ UNCHANGED <<opened, usageVars, storeVars, ensureVars, replayVars, configVars, chatVars, nStarted>>

\* spec 4.1: cleanupSession(id) called on the registry directly (shutdown,
\* transport close): a no-op without a live session
cleanupSession(t, id) ==
  LET entry == registry[id]
      mode == cleanupMode(entry)
      c == [CallIdle EXCEPT !.op = "cleanup", !.target = id]
  IN /\ Fresh(t)
     /\ entry.state \notin {"CREATING", "CLOSING"}
     /\ CASE mode = "noop" ->
               /\ returned' = Returns([c EXCEPT !.lookup = "notFound"],
                                     "none", "", "ok")
               /\ UNCHANGED <<registry, call>>
          [] mode = "throw" ->
               /\ returned' = Returns([c EXCEPT !.lookup = "notFound"],
                                     "cleanup", "", "error")
               /\ UNCHANGED <<registry, call>>
          [] OTHER ->
               /\ call' = [call EXCEPT ![t] =
                    [c EXCEPT !.pc = "closingHandle", !.lookup = "found",
                              !.session = entry.remoteId]]
               /\ registry' = BeginClosing(id)
               /\ UNCHANGED returned
     /\ UNCHANGED <<opened, currentSessionId, usageVars, storeVars, ensureVars, replayVars, configVars, chatVars>>

\* spec 4.1 (a), (b): the automation handle is closed (or closing it raised
\* closeError); the purge of the session's resources starts (part_003 53-61,
\* default options)
stagehandClosed(t, closeError) ==
  /\ call[t].pc = "closingHandle"
  /\ purge.pc = "idle"
  /\ call' = [call EXCEPT ![t] =
       [@ EXCEPT !.pc = "purging", !.raised = closeError]]
  /\ purge' = [pc |-> "attempt", sessionId |-> call[t].target,
               retries |-> DefaultRetries, attempt |-> 0,
               delay |-> DefaultInitialDelayMs, waits |-> <<>>, removed |-> {},
               tries |-> 0, firstCaught |-> NoError, caught |-> NoError,
               thrown |-> NoError, initialDelayMs |-> DefaultInitialDelayMs]
  /\ UNCHANGED <<screenshots, sessionIdToScreenshotNames, putBy, lastCall>>
  /\ UNCHANGED <<registry, opened, currentSessionId, returned,
                 usageVars, ensureVars, replayVars, configVars, chatVars, nStarted>>

\* a cleanup that also drops the usage entry of the session
usageAfterCleanup_DropsSession(perSession, id) ==
  [s \in DOMAIN perSession \ {id} |-> perSession[s]]

\* spec 4.1 (a)-(e), 4.3: no step of cleanupSession removes or lowers a
\* usage counter; only an explicit reset clears the meter
usageAfterCleanup(perSession, id) == perSession

\* the replay is fetched whether or not the session has a remote id
replayFetchDue_Always(browserbaseSessionId) == TRUE

\* session.ts 275, 282: "if (browserbaseSessionId)", the session's sessionId
\* (0 stands for a session object without one)
replayFetchDue(browserbaseSessionId) == browserbaseSessionId # 0

\* spec 4.1 (d), (e), 4.2: the purge returned or gave up (its error is
\* logged); the entry is removed and the active id falls back to the
\* default. The caller then sees cleanupSession return or throw: session.ts
\* 278-286 (returned), 299-305 and 314-320 (threw)
cleanupSessionFinishes(t) ==
  LET id == call[t].target
      c == call[t]
      purgeThrew == purge.pc = "threw"
  IN /\ c.pc = "purging"
     /\ purge.pc \in {"returned", "threw"}
     /\ purge.sessionId = id
     /\ purge' = PurgeIdle
     /\ registry' = [registry EXCEPT ![id] = entryAfterCleanup(@, purgeThrew)]
     /\ currentSessionId' =
          IF currentSessionId = id THEN DefaultSessionId ELSE currentSessionId
     /\ IF c.raised # NoError
          THEN /\ call' = [call EXCEPT ![t] = CallIdle]
               /\ returned' = IF c.op = "close"
                                THEN CloseReturns(c, "cleanup", c.raised)
                                ELSE Returns(c, "cleanup", "", "error")
          ELSE IF c.op = "close" /\ replayFetchDue(c.session)
            THEN /\ call' = [call EXCEPT ![t] =
                      [c EXCEPT !.pc = "fetch", !.cleanupSuccessful = TRUE,
                                !.purgeFailed = purgeThrew,
                                !.fetches = @ + 1]]
                 /\ UNCHANGED returned
          ELSE IF c.op = "close"
            THEN /\ call' = [call EXCEPT ![t] = CallIdle]
                 /\ returned' = CloseReturns(
                      [c EXCEPT !.cleanupSuccessful = TRUE], "none", "")
            ELSE /\ call' = [call EXCEPT ![t] = CallIdle]
                 /\ returned' = Returns(c, "none", "", "ok")
     /\ UNCHANGED <<screenshots, sessionIdToScreenshotNames, putBy, lastCall>>
     /\ perSessionUsage' = usageAfterCleanup(perSessionUsage, id)
     /\ UNCHANGED <<globalUsage, nCalls, usageLast, recording>>
     /\ UNCHANGED <<opened, ensureVars, replayVars, configVars, chatVars, nStarted>>

\* session.ts 186-253, 281-293, 299-305, 322-328: the replay fetch ends:
\* totals (non-zero, written to stdout by 288-292 and used nowhere else),
\* null (keys missing, body not parseable) or the fetch rejects;
\* cleanup has succeeded, so the close reports success in every case
fetchStagehandTokenUsageSummary(t, outcome, msg) ==
  LET c == call[t]
  IN /\ c.pc = "fetch"
     /\ call' = [call EXCEPT ![t] = CallIdle]
     /\ returned' = IF outcome = "throws"
                      THEN CloseReturns(c, "fetch", msg)
                      ELSE [CloseReturns(c, "none", "")
                              EXCEPT !.tokenUsageTotals = outcome]
     /\ UNCHANGED <<registry, opened, currentSessionId,
                    usageVars, storeVars, ensureVars, replayVars, configVars, chatVars, nStarted>>

\* spec 4.1 failure semantics: the provider ends the remote session; the
\* registry notices on the next use
remoteSessionExpires(id) ==
  /\ registry[id].state = "ACTIVE"
  /\ registry[id].alive
  /\ registry' = [registry EXCEPT ![id] = [@ EXCEPT !.alive = FALSE]]
  /\ UNCHANGED <<opened, currentSessionId, call, returned,
                 usageVars, storeVars, ensureVars, replayVars, configVars, chatVars, nStarted>>

\* a screenshot taken in the active session is registered under its id
screenshotTaken(name, base64) ==
  /\ registry[currentSessionId].state = "ACTIVE"
  /\ registerScreenshot(currentSessionId, name, base64)

\* a Stagehand tool call made in the active session is recorded under its id
toolCallRecorded(toolName, operation) ==
  /\ registry[currentSessionId].state = "ACTIVE"
  /\ recordStagehandCall(currentSessionId, toolName, operation)

SessionInit ==
  /\ registry = [id \in SessionIds |-> Absent]
  /\ opened = [id \in SessionIds |-> 0]
  /\ currentSessionId = DefaultSessionId
  /\ call = [t \in Tasks |-> CallIdle]
  /\ returned = NothingReturned
  /\ nStarted = 0

HandleCreateSession ==
  \E t \in Tasks, sessionId \in CreateParams : handleCreateSession(t, sessionId)
RemoteOpenSucceeds == \E t \in Tasks : remoteOpenSucceeds(t)
RemoteOpenFails == \E t \in Tasks, msg \in ErrorMessages : remoteOpenFails(t, msg)
CreationRejected == \E t \in Tasks : creationRejected(t)
DebugUrlFetched == \E t \in Tasks : debugUrlFetched(t)
DebugUrlFails == \E t \in Tasks : debugUrlFails(t)
HandleCloseSession == \E t \in Tasks : handleCloseSession(t)
GetSessionReturns ==
  \E t \in Tasks, msg \in ErrorMessages : getSessionReturns(t, msg, TRUE)
CleanupSession == \E t \in Tasks, id \in SessionIds : cleanupSession(t, id)
StagehandClosed ==
  \E t \in Tasks, e \in CloseErrors : stagehandClosed(t, e)
CleanupSessionFinishes == \E t \in Tasks : cleanupSessionFinishes(t)
FetchStagehandTokenUsageSummary ==
  \E t \in Tasks, o \in {"totals", "null", "throws"}, msg \in ErrorMessages :
    fetchStagehandTokenUsageSummary(t, o, msg)
RemoteSessionExpires == \E id \in SessionIds : remoteSessionExpires(id)
ScreenshotTaken ==
  \E n \in SessionScreenshotNames, b \in SessionPayloads : screenshotTaken(n, b)
PurgeAttemptFails ==
  \E D \in SUBSET SessionScreenshotNames : retryAttemptFails(D, "boom")

ToolCallRecorded ==
  \E tool \in SessionToolNames, op \in SessionOperations :
    toolCallRecorded(tool, op)

\* the life of a session with its tool calls metered
SessionUsageNext ==
  \/ HandleCreateSession
  \/ RemoteOpenSucceeds
  \/ DebugUrlFetched
  \/ ToolCallRecorded
  \/ HandleCloseSession
  \/ GetSessionReturns
  \/ CleanupSession
  \/ StagehandClosed
  \/ retryAttemptSucceeds
  \/ PurgeAttemptFails
  \/ retryWake
  \/ CleanupSessionFinishes
  \/ FetchStagehandTokenUsageSummary

GetSession == \E t \in Tasks, id \in SessionIds : getSession(t, id)

\* the session object found may lack its sessionId
GetSessionReturnsAnySession ==
  \E t \in Tasks, msg \in ErrorMessages, remoteIdKnown \in BOOLEAN :
    getSessionReturns(t, msg, remoteIdKnown)

\* session.close in all its branches
CloseNext ==
  \/ HandleCreateSession
  \/ RemoteOpenSucceeds
  \/ DebugUrlFetched
  \/ HandleCloseSession
  \/ GetSessionReturnsAnySession
  \/ StagehandClosed
  \/ retryAttemptSucceeds
  \/ CleanupSessionFinishes
  \/ FetchStagehandTokenUsageSummary
  \/ RemoteSessionExpires

\* lookups with and without createIfMissing, next to create and close
GetSessionNext ==
  \/ HandleCreateSession
  \/ RemoteOpenSucceeds
  \/ DebugUrlFetched
  \/ GetSession
  \/ HandleCloseSession
  \/ GetSessionReturns
  \/ StagehandClosed
  \/ retryAttemptSucceeds
  \/ CleanupSessionFinishes
  \/ FetchStagehandTokenUsageSummary
  \/ RemoteSessionExpires

SessionNext ==
  \/ HandleCreateSession
  \/ RemoteOpenSucceeds
  \/ RemoteOpenFails
  \/ CreationRejected
  \/ DebugUrlFetched
  \/ DebugUrlFails
  \/ HandleCloseSession
  \/ GetSessionReturns
  \/ CleanupSession
  \/ StagehandClosed
  \/ CleanupSessionFinishes
  \/ FetchStagehandTokenUsageSummary
  \/ RemoteSessionExpires
  \/ ScreenshotTaken
  \/ retryAttemptSucceeds
  \/ PurgeAttemptFails
  \/ retryWake

(***************************************************************************)
(* Configuration: resolveConfig (part_002 39-79, browserbase/src/program.ts)*)
(***************************************************************************)
\* what the command line can give for each option ("absent": not given);
\* program.ts 15-18: --proxies is a flag, the others take a value; a caller
\* of resolveConfig other than the program may also pass proxies: false
ProxiesGiven == {"absent", "true", "false"}
ContextGiven == {"absent", "ctx1", "ctx2"}
PortGiven == {"absent", "8080", "3000"}
HostGiven == {"absent", "localhost", "0.0.0.0"}

\* one property of an object, no property when the option is not given
Property(key, given, value) ==
  IF given = "absent" THEN EmptyMap ELSE (key :> value)

\* program.ts 15-20: the options object commander hands to the action
CliOptionSets ==
  { Property("proxies", p, p = "true") @@ Property("context", c, c) @@
    Property("port", po, po) @@ Property("host", h, h) :
      p \in ProxiesGiven, c \in ContextGiven,
      po \in PortGiven, h \in HostGiven }

\* a JavaScript object whose properties may hold undefined: own lists the
\* property names, val the values of those that are not undefined
JsObject(own, val) == [own |-> own, val |-> val]

\* cliOptions.server?.port: an optional chain that yields undefined
OptionalChain(obj, key, sub) ==
  IF key \in DOMAIN obj /\ sub \in DOMAIN obj[key]
    THEN (sub :> obj[key][sub]) ELSE EmptyMap

\* part_002 49-51
defaultConfig == JsObject({"proxies"}, ("proxies" :> FALSE))

\* part_002 58-66: { server: { port: cliOptions.server?.port, host:
\* cliOptions.server?.host }, proxies: cliOptions.proxies }
configFromCLIOptions(cliOptions) ==
  JsObject({"server", "proxies"},
           ("server" :> JsObject({"port", "host"},
                                 OptionalChain(cliOptions, "server", "port") @@
                                 OptionalChain(cliOptions, "server", "host")))
           @@ Property("proxies",
                       IF "proxies" \in DOMAIN cliOptions THEN "given" ELSE "absent",
                       IF "proxies" \in DOMAIN cliOptions
                         THEN cliOptions.proxies ELSE FALSE))

\* part_002 68-72: the entries whose value is not undefined
pickDefined(obj) == JsObject(DOMAIN obj.val, obj.val)

\* part_002 74-79: { ...pickDefined(base), ...pickDefined(overrides) }
mergeConfig(base, overrides) ==
  LET b == pickDefined(base)
      o == pickDefined(overrides)
  IN JsObject(b.own \cup o.own,
              [k \in b.own \cup o.own |->
                 IF k \in o.own THEN o.val[k] ELSE b.val[k]])

\* part_002 53-56
resolveConfig(cliOptions) ==
  mergeConfig(defaultConfig, configFromCLIOptions(cliOptions))

CliIdle == [pc |-> "idle"]

\* program.ts 19-20: the program's action runs with the parsed options
programAction(cliOptions) ==
  /\ cli.pc = "idle"
  /\ cli' = [pc |-> "called", cliOptions |-> cliOptions]
  /\ UNCHANGED <<usageVars, storeVars, ensureVars, sessionVars, replayVars, chatVars>>

\* program.ts 20, part_002 53-56: resolveConfig answers
configResolved ==
  /\ cli.pc = "called"
  /\ cli' = [pc |-> "resolved", cliOptions |-> cli.cliOptions,
             config |-> resolveConfig(cli.cliOptions)]
  /\ UNCHANGED <<usageVars, storeVars, ensureVars, sessionVars, replayVars, chatVars>>

\* program.ts 21: the configuration is handed to createServer
serverCreated ==
  /\ cli.pc = "resolved"
  /\ cli' = CliIdle
  /\ UNCHANGED <<usageVars, storeVars, ensureVars, sessionVars, replayVars, chatVars>>

ConfigInit == cli = CliIdle

ProgramAction == \E cliOptions \in CliOptionSets : programAction(cliOptions)

ConfigNext ==
  \/ ProgramAction
  \/ configResolved
  \/ serverCreated

(***************************************************************************)
(* Replay fetcher: fetchStagehandTokenUsageSummary (tools/session.ts)      *)
(***************************************************************************)
\* JSON values of tokenUsage.timeMs with their typeof
JsNumber(n) == [typeof |-> "number", value |-> n]
JsString(n) == [typeof |-> "string", value |-> n]

\* the actions of a replay page: without tokenUsage, with a numeric timeMs,
\* with a timeMs that is not a number (a string; a missing timeMs fails the
\* typeof test of line 237 in the same way)
ReplayActions ==
  {[type |-> "act"],
   [type |-> "act",
    tokenUsage |-> [inputTokens |-> 3, outputTokens |-> 1, timeMs |-> JsNumber(5)]],
   [type |-> "extract",
    tokenUsage |-> [inputTokens |-> 2, outputTokens |-> 4, timeMs |-> JsString(7)]]}

\* sequences over S of length at most n
SeqsUpTo(S, n) == UNION {[1 .. k -> S] : k \in 0 .. n}

\* the pages of a payload: well-formed ones, and one without "actions"
ReplayPages ==
  {[actions |-> as] : as \in SeqsUpTo(ReplayActions, MaxActions)} \cup
  {[url |-> "about:blank"]}

\* what the replay endpoint can answer: the request rejects, the body is
\* not JSON, or a JSON payload (possibly without data or without data.pages)
ReplayResponses ==
  {[kind |-> "networkError"], [kind |-> "notJson"],
   [kind |-> "json", body |-> [error |-> "not found"]],
   [kind |-> "json", body |-> [data |-> [session |-> "gone"]]]} \cup
  {[kind |-> "json", body |-> [data |-> [pages |-> ps]]] :
     ps \in SeqsUpTo(ReplayPages, MaxPages)}

\* config.browserbaseApiKey, browserbaseProjectId and the model key
ReplayConfigs ==
  {[apiKey |-> "bb_key", projectId |-> "proj", modelApiKey |-> "model_key"],
   [apiKey |-> "", projectId |-> "proj", modelApiKey |-> "model_key"],
   [apiKey |-> "bb_key", projectId |-> "", modelApiKey |-> "model_key"],
   [apiKey |-> "bb_key", projectId |-> "proj", modelApiKey |-> ""]}

\* session.ts 226-230
ZeroTotals ==
  [totalInputTokens |-> 0, totalOutputTokens |-> 0, totalTimeMs |-> 0]

\* the time of every action is added, whatever its type
addAction_AddsEveryTime(totals, action) ==
  IF "tokenUsage" \in DOMAIN action
    THEN [totalInputTokens |-> totals.totalInputTokens + action.tokenUsage.inputTokens,
          totalOutputTokens |-> totals.totalOutputTokens + action.tokenUsage.outputTokens,
          totalTimeMs |-> totals.totalTimeMs + action.tokenUsage.timeMs.value]
    ELSE totals

\* session.ts 234-240: one action of the inner loop
addAction(totals, action) ==
  IF "tokenUsage" \in DOMAIN action
    THEN [totalInputTokens |-> totals.totalInputTokens + action.tokenUsage.inputTokens,
          totalOutputTokens |-> totals.totalOutputTokens + action.tokenUsage.outputTokens,
          totalTimeMs |->
            IF action.tokenUsage.timeMs.typeof = "number"
              THEN totals.totalTimeMs + action.tokenUsage.timeMs.value
              ELSE totals.totalTimeMs]
    ELSE totals

\* session.ts 233-241: the inner loop over page.actions, from action i on
RECURSIVE addActions(_, _, _)
addActions(totals, actions, i) ==
  IF i > Len(actions) THEN totals
  ELSE addActions(addAction(totals, actions[i]), actions, i + 1)

\* session.ts 232-242: the outer loop over data.pages, from page i on; a
\* page without "actions" makes the for-of throw a TypeError
RECURSIVE addPages(_, _, _)
addPages(totals, pages, i) ==
  IF i > Len(pages) THEN [kind |-> "totals", totals |-> totals]
  ELSE IF "actions" \notin DOMAIN pages[i] THEN [kind |-> "TypeError"]
  ELSE addPages(addActions(totals, pages[i].actions, 1), pages, i + 1)

\* session.ts 221-244: the body of the try: parse, then aggregate
parseAndAggregate(response) ==
  IF response.kind = "notJson" THEN [kind |-> "SyntaxError"]
  ELSE IF "data" \notin DOMAIN response.body THEN [kind |-> "TypeError"]
  ELSE IF "pages" \notin DOMAIN response.body.data THEN [kind |-> "TypeError"]
  ELSE addPages(ZeroTotals, response.body.data.pages, 1)

\* session.ts 190-197: the three keys are truthy
keysPresent(config) ==
  config.apiKey # "" /\ config.projectId # "" /\ config.modelApiKey # ""

\* session.ts 186-253: null when a key is missing (197-202); the request is
\* awaited outside the try (204-219), so its rejection leaves the function;
\* whatever the try throws is caught and null is returned (245-252)
fetchSummary(config, response) ==
  IF ~keysPresent(config) THEN [kind |-> "null"]
  ELSE IF response.kind = "networkError" THEN [kind |-> "throws"]
  ELSE LET r == parseAndAggregate(response)
       IN IF r.kind = "totals" THEN r ELSE [kind |-> "null"]

ReplayIdle == [pc |-> "idle"]

\* session.ts 190-202: the fetcher is called with a config
replayRequested(config) ==
  /\ replay.pc = "idle"
  /\ replay' = [pc |-> "called", config |-> config]
  /\ UNCHANGED <<usageVars, storeVars, ensureVars, sessionVars, configVars, chatVars>>

\* session.ts 197-253: the endpoint answers (it is not asked at all when a
\* key is missing) and the fetcher returns or throws
replayAnswered(response) ==
  /\ replay.pc = "called"
  /\ replay' = [pc |-> "done", config |-> replay.config, response |-> response,
                result |-> fetchSummary(replay.config, response)]
  /\ UNCHANGED <<usageVars, storeVars, ensureVars, sessionVars, configVars, chatVars>>

\* the caller has taken the result (session.ts 283-293)
replayReturned ==
  /\ replay.pc = "done"
  /\ replay' = ReplayIdle
  /\ UNCHANGED <<usageVars, storeVars, ensureVars, sessionVars, configVars, chatVars>>

ReplayInit == replay = ReplayIdle

ReplayRequested == \E config \in ReplayConfigs : replayRequested(config)
ReplayAnswered ==
  /\ replay.pc = "called"
  /\ \E response \in ReplayResponses : replayAnswered(response)

ReplayNext ==
  \/ ReplayRequested
  \/ ReplayAnswered
  \/ replayReturned

(***************************************************************************)
(* Custom LLM client: createChatCompletion                                 *)
(* (stagehand/src/customOpenAIClient.ts)                                   *)
(***************************************************************************)
\* the caller's retries: absent, or a count
ChatRetriesOptions ==
  {EmptyMap} \cup {[retries |-> n] : n \in 0 .. MaxChatRetries}

\* customOpenAIClient.ts 49: "retries = 3"
retriesOrDefault(given) ==
  IF "retries" \in DOMAIN given THEN given.retries ELSE DefaultChatRetries

\* response.choices[0]?.message?.content: null, or a text
NoContent == [typeof |-> "null", value |-> ""]
ChatContents ==
  {NoContent, JsString(""), JsString("Sure, here it is"),
   JsString("null"), JsString("{\"ok\":1}"), JsString("{\"ok\":true}")}

\* JSON.parse on the texts of ChatContents: the value, or the SyntaxError
JSONParse(text) ==
  CASE text = "null" -> [thrown |-> FALSE, typeof |-> "null", ok |-> "none"]
    [] text = "{\"ok\":1}" ->
         [thrown |-> FALSE, typeof |-> "object", ok |-> "number"]
    [] text = "{\"ok\":true}" ->
         [thrown |-> FALSE, typeof |-> "object", ok |-> "boolean"]
    [] OTHER -> [thrown |-> TRUE, typeof |-> "undefined", ok |-> "none"]

\* customOpenAIClient.ts 25-32, for the schema z.object({ ok: z.boolean() })
validateZodSchema(data) == data.typeof = "object" /\ data.ok = "boolean"

\* a retry is made while the count is not negative
retryAllowed_WhileNotNegative(retries) == retries >= 0

\* customOpenAIClient.ts 166, 182: "if (retries > 0)"
retryAllowed(retries) == retries > 0

\* customOpenAIClient.ts 139-188: what the call does with a response
afterResponse(schema, retries, content) ==
  IF ~schema THEN "return"
  ELSE IF content = NoContent THEN "throwNoContent"
  ELSE IF JSONParse(content.value).thrown
    THEN IF retryAllowed(retries) THEN "retry" ELSE "throwParse"
  ELSE IF ~validateZodSchema(JSONParse(content.value))
    THEN IF retryAllowed(retries) THEN "retry" ELSE "throwSchema"
  ELSE "return"

\* customOpenAIClient.ts 18-23: the results that are a
\* CreateChatCompletionResponseError
CreateChatCompletionResponseError ==
  {"throwNoContent", "throwParse", "throwSchema"}

ChatIdle ==
  [pc |-> "idle", given |-> EmptyMap, schema |-> FALSE, retries |-> 0,
   requests |-> 0, result |-> "none", content |-> NoContent]

\* customOpenAIClient.ts 47-122: the call builds the body and sends the
\* request
createChatCompletion(given, schema) ==
  /\ chat.pc = "idle"
  /\ chat' = [pc |-> "awaiting", given |-> given, schema |-> schema,
              retries |-> retriesOrDefault(given), requests |-> 1,
              result |-> "none", content |-> NoContent]
  /\ UNCHANGED <<usageVars, storeVars, ensureVars, sessionVars, replayVars, configVars>>

\* customOpenAIClient.ts 122: the request rejects; the error leaves the call
requestFails ==
  /\ chat.pc = "awaiting"
  /\ chat' = [chat EXCEPT !.pc = "idle", !.result = "throwApiError"]
  /\ UNCHANGED <<usageVars, storeVars, ensureVars, sessionVars, replayVars, configVars>>

\* customOpenAIClient.ts 122-188: a response arrives; a retry is the call
\* made again with retries - 1, whose outcome is this call's outcome
responseReceived(content) ==
  /\ chat.pc = "awaiting"
  /\ LET step == afterResponse(chat.schema, chat.retries, content)
     IN chat' =
          IF step = "retry"
            THEN [chat EXCEPT !.retries = @ - 1, !.requests = @ + 1,
                              !.content = content]
            ELSE [chat EXCEPT !.pc = "idle", !.result = step,
                              !.content = content]
  /\ UNCHANGED <<usageVars, storeVars, ensureVars, sessionVars, replayVars, configVars>>

ChatInit == chat = ChatIdle

CreateChatCompletion ==
  \E given \in ChatRetriesOptions, schema \in BOOLEAN :
    createChatCompletion(given, schema)

ResponseReceived == \E content \in ChatContents : responseReceived(content)

ChatNext ==
  \/ CreateChatCompletion
  \/ requestFails
  \/ ResponseReceived

\* the contribution of action j of page i to a total, by its field
TokenField(pages, i, j, field) ==
  LET a == pages[i].actions[j]
  IN IF "tokenUsage" \in DOMAIN a THEN a.tokenUsage[field] ELSE 0

TimeOf(pages, i, j) ==
  LET a == pages[i].actions[j]
  IN IF "tokenUsage" \in DOMAIN a /\ a.tokenUsage.timeMs.typeof = "number"
       THEN a.tokenUsage.timeMs.value ELSE 0

\* all (page, action) positions of a well-formed payload
Positions(pages) ==
  {ij \in (1 .. Len(pages)) \X (1 .. MaxActions) :
     ij[2] <= Len(pages[ij[1]].actions)}

\* a payload whose pages all have their actions
WellFormed(response) ==
  /\ response.kind = "json"
  /\ "data" \in DOMAIN response.body
  /\ "pages" \in DOMAIN response.body.data
  /\ \A i \in 1 .. Len(response.body.data.pages) :
       "actions" \in DOMAIN response.body.data.pages[i]

\* C19: whatever the endpoint does, the fetcher returns totals or null; it
\* never throws
C19_FetcherNeverRaises ==
  replay.pc = "done" => replay.result.kind \in {"totals", "null"}

\* C20: for a well-formed payload the returned totals are the sums, over
\* every action of every page, of tokenUsage.inputTokens, of
\* tokenUsage.outputTokens and of the timeMs that are numbers; an action
\* without tokenUsage adds nothing
C20_TotalsAreSums ==
  (/\ replay.pc = "done"
   /\ keysPresent(replay.config)
   /\ WellFormed(replay.response)) =>
    LET pages == replay.response.body.data.pages
        P == Positions(pages)
    IN /\ replay.result.kind = "totals"
       /\ replay.result.totals.totalInputTokens =
            SumValues([ij \in P |-> TokenField(pages, ij[1], ij[2], "inputTokens")])
       /\ replay.result.totals.totalOutputTokens =
            SumValues([ij \in P |-> TokenField(pages, ij[1], ij[2], "outputTokens")])
       /\ replay.result.totals.totalTimeMs =
            SumValues([ij \in P |-> TimeOf(pages, ij[1], ij[2])])

C20_Witness ==
  /\ replay.pc = "done"
  /\ replay.result.kind = "totals"
  /\ Len(replay.response.body.data.pages) = 2
  /\ replay.result.totals.totalInputTokens = 7
  /\ replay.result.totals.totalOutputTokens = 9
  /\ replay.result.totals.totalTimeMs = 5

\* callCount of the bucket of op in a container, 0 when there is no bucket
CallCountOf(container, op) ==
  IF op \in DOMAIN container THEN container[op].callCount ELSE 0

\* sum over the sessions in S of the session's callCount for op
RECURSIVE SessionSum(_, _)
SessionSum(S, op) ==
  IF S = {} THEN 0
  ELSE LET s == CHOOSE x \in S : TRUE
       IN CallCountOf(perSessionUsage[s].operations, op) + SessionSum(S \ {s}, op)

\* every usage bucket: the global ones and those of every session
AllBuckets ==
  {globalUsage[op] : op \in DOMAIN globalUsage} \cup
  UNION {{perSessionUsage[s].operations[op] :
            op \in DOMAIN perSessionUsage[s].operations} :
         s \in DOMAIN perSessionUsage}

\* C1: after any sequence of record and reset calls, for every operation the
\* global callCount equals the sum of the per-session callCounts (a session
\* without a bucket counts 0; an operation without a global bucket has no
\* session bucket either).
C1_GlobalEqualsSessionSum ==
  /\ \A op \in Operations :
       CallCountOf(globalUsage, op) = SessionSum(DOMAIN perSessionUsage, op)
  /\ \A s \in DOMAIN perSessionUsage :
       DOMAIN perSessionUsage[s].operations \subseteq DOMAIN globalUsage

\* C1 witness: one operation recorded under two sessions, three calls in all
C1_Witness ==
  \E op \in DOMAIN globalUsage :
    /\ globalUsage[op].callCount = 3
    /\ \A s \in UsageSessions :
         /\ s \in DOMAIN perSessionUsage
         /\ op \in DOMAIN perSessionUsage[s].operations

\* C2: in every usage bucket (global and per session) the values of
\* toolCallCounts sum to callCount.
C2_ToolCountsSumToCallCount ==
  \A b \in AllBuckets : SumValues(b.toolCallCounts) = b.callCount

\* C2 witness: a session bucket called through two different tools
C2_Witness ==
  \E s \in DOMAIN perSessionUsage :
    \E op \in DOMAIN perSessionUsage[s].operations :
      LET b == perSessionUsage[s].operations[op]
      IN /\ DOMAIN b.toolCallCounts = ToolNames
         /\ b.callCount = 3

\* C7: when the retrying purge of a session returns, the store holds no
\* entry put under that session and the session tracks no name, also when
\* earlier attempts failed part-way.
C7_NoEntryAfterCleanup ==
  [][(purge.pc = "attempt" /\ purge'.pc = "returned") =>
       /\ purge.sessionId \notin DOMAIN sessionIdToScreenshotNames'
       /\ \A n \in DOMAIN screenshots' : putBy'[n] # purge.sessionId]_vars

\* C7 witness: the purge returned after a failed first attempt, it removed an
\* entry, and an entry of another session is still stored
C7_Witness ==
  /\ purge.pc = "returned"
  /\ purge.attempt >= 1
  /\ purge.removed # {}
  /\ lastCall = [op |-> "clearScreenshotsForSession", sessionId |-> purge.sessionId]
  /\ \E n \in DOMAIN screenshots : putBy[n] # purge.sessionId

\* C8: clearScreenshotsForSession(s) removes no entry that was put by a
\* session other than s.
C8_ClearRemovesOnlyOwnEntries ==
  [][lastCall'.op = "clearScreenshotsForSession" =>
       \A n \in DOMAIN screenshots \ DOMAIN screenshots' :
         putBy[n] = lastCall'.sessionId]_vars

\* the Stagehand instances whose remote session is open
LiveDefaultSessions == {h \in DOMAIN handleState : handleState[h] = "ready"}

\* C4: at most one default session is open at any time and every caller of
\* ensureStagehand that is returned an instance is returned an initialised
\* one.
C4_SingleDefaultSession ==
  /\ Cardinality(LiveDefaultSessions) <= 1
  /\ \A t \in Tasks :
       ensureCall[t].ret.kind = "ok" => ensureCall[t].ret.initialised

\* C9: when opening the remote session failed, no handle is left cached, so
\* the next ensure call starts from the absent state.
C9_FailedOpenLeavesNothingCached ==
  stagehand # 0 => handleState[stagehand] # "initFailed"

\* toolCallCounts[tool] of the bucket of op in a container, 0 when missing
ToolCountOf(container, op, tool) ==
  IF op \in DOMAIN container /\ tool \in DOMAIN container[op].toolCallCounts
    THEN container[op].toolCallCounts[tool] ELSE 0

\* the operations of a session in a per-session map, none when it has no entry
OperationsOf(perSession, s) ==
  IF s \in DOMAIN perSession THEN perSession[s].operations ELSE EmptyMap

\* the calls counted in a container, over all its operations
TotalCalls(container) ==
  SumValues([op \in DOMAIN container |-> container[op].callCount])

\* the input tokens accumulated in the bucket of op, 0 when it holds none
AccumulatedInputTokens(container, op) ==
  IF op \in DOMAIN container /\ "inputTokens" \in DOMAIN container[op]
    THEN container[op].inputTokens ELSE 0

\* C11: usage.stats with reset = true returns, for the requested scope, the
\* counters as they were immediately before the reset, and the counters are
\* empty after the call
C11_ResetReturnsPriorCounters ==
  (usageLast.op = "usage.stats" /\ resetRequested(usageLast.params)) =>
    /\ usageLast.result =
         usageResult(usageLast.params, usageLast.before, usageLast.before)
    /\ globalUsage = EmptyMap
    /\ perSessionUsage = EmptyMap

\* C12: right after reset(), whatever was recorded before, the snapshot for
\* scope "all" has an empty global map and an empty perSession map
C12_SnapshotEmptyAfterReset ==
  usageLast.op = "resetUsage" =>
    usageResult([scope |-> "all", sessionId |-> Undefined],
                getUsageSnapshot(globalUsage, perSessionUsage),
                getUsageSnapshot(globalUsage, perSessionUsage))
      = getUsageSnapshot(EmptyMap, EmptyMap)

C12_Witness ==
  /\ usageLast.op = "resetUsage"
  /\ DOMAIN usageLast.before.global # {}
  /\ Cardinality(DOMAIN usageLast.before.perSession) = 2

\* C13: usage.stats without reset, for any scope and any sessionId (also one
\* that never recorded a call), leaves the global and the per-session
\* counters exactly as they were and creates no entry
C13_ReadingNeverMutates ==
  (usageLast.op = "usage.stats" /\ ~resetRequested(usageLast.params)) =>
    getUsageSnapshot(globalUsage, perSessionUsage) = usageLast.before

C13_Witness ==
  /\ usageLast.op = "usage.stats"
  /\ ~resetRequested(usageLast.params)
  /\ usageLast.params.scope = "perSession"
  /\ usageLast.params.sessionId = "s3"
  /\ usageLast.result = [perSession |-> [s \in {"s3"} |-> [operations |-> EmptyMap]]]
  /\ DOMAIN perSessionUsage = {"s1"}

\* C14: with record calls in flight, the calls counted in the global map and
\* in the per-session map both equal the record calls made since the last
\* reset (none lost, none counted twice, none in one map only), and a call
\* in flight that no reset has cleared is present in both maps
C14_ResetAtomicWithRecord ==
  /\ TotalCalls(globalUsage) = nCalls
  /\ SumValues([s \in DOMAIN perSessionUsage |->
                  TotalCalls(perSessionUsage[s].operations)]) = nCalls
  /\ \A t \in Tasks :
       (recording[t].pc = "logging" /\ ~recording[t].cleared) =>
         /\ ToolCountOf(globalUsage, recording[t].operation,
                        recording[t].toolName) >= 1
         /\ ToolCountOf(OperationsOf(perSessionUsage, recording[t].sessionId),
                        recording[t].operation, recording[t].toolName) >= 1

C14_Witness ==
  \E t, u \in Tasks :
    /\ recording[t].pc = "logging" /\ recording[t].cleared
    /\ recording[u].pc = "logging" /\ ~recording[u].cleared
    /\ nCalls = 1

\* C16: a record call that carries metrics adds their input tokens to the
\* global bucket and to the session bucket of the operation
C16_MetricsAccumulated ==
  (usageLast.op = "record" /\ "stagehand" \in DOMAIN usageLast.args) =>
    LET m == usageLast.args.stagehand.metrics
        op == usageLast.operation
        s == usageLast.sessionId
    IN /\ AccumulatedInputTokens(globalUsage, op) =
            AccumulatedInputTokens(usageLast.before.global, op) + m.inputTokens
       /\ AccumulatedInputTokens(OperationsOf(perSessionUsage, s), op) =
            AccumulatedInputTokens(OperationsOf(usageLast.before.perSession, s), op)
              + m.inputTokens

\* C17: record({s, t, op}) increases by exactly 1 the callCount and the
\* toolCallCounts[t] of global[op] and of perSession[s].operations[op]
\* (a missing bucket counts from 0) and leaves every other operation, tool
\* and session counter as it was
C17_RecordIncrementsExactlyItsCounters ==
  usageLast.op = "record" =>
    LET b == usageLast.before
        s == usageLast.sessionId
        t == usageLast.toolName
        op == usageLast.operation
        ops == OperationsOf(perSessionUsage, s)
        opsBefore == OperationsOf(b.perSession, s)
    IN /\ CallCountOf(globalUsage, op) = CallCountOf(b.global, op) + 1
       /\ ToolCountOf(globalUsage, op, t) = ToolCountOf(b.global, op, t) + 1
       /\ CallCountOf(ops, op) = CallCountOf(opsBefore, op) + 1
       /\ ToolCountOf(ops, op, t) = ToolCountOf(opsBefore, op, t) + 1
       /\ DOMAIN globalUsage = DOMAIN b.global \cup {op}
       /\ DOMAIN perSessionUsage = DOMAIN b.perSession \cup {s}
       /\ DOMAIN ops = DOMAIN opsBefore \cup {op}
       /\ \A o \in DOMAIN b.global \ {op} : globalUsage[o] = b.global[o]
       /\ \A x \in DOMAIN b.perSession \ {s} :
            perSessionUsage[x] = b.perSession[x]
       /\ \A o \in DOMAIN opsBefore \ {op} : ops[o] = opsBefore[o]
       /\ \A x \in ToolNames \ {t} :
            /\ ToolCountOf(globalUsage, op, x) = ToolCountOf(b.global, op, x)
            /\ ToolCountOf(ops, op, x) = ToolCountOf(opsBefore, op, x)
            /\ x \in DOMAIN globalUsage[op].toolCallCounts =>
                 op \in DOMAIN b.global /\ x \in DOMAIN b.global[op].toolCallCounts
            /\ x \in DOMAIN ops[op].toolCallCounts =>
                 op \in DOMAIN opsBefore /\ x \in DOMAIN opsBefore[op].toolCallCounts

C17_Witness ==
  /\ usageLast.op = "record"
  /\ CallCountOf(usageLast.before.global, usageLast.operation) >= 1
  /\ usageLast.sessionId \notin DOMAIN usageLast.before.perSession
  /\ Cardinality(DOMAIN globalUsage) = 2

\* C15: no step of a session.close or cleanupSession call removes or
\* changes a usage counter: the per-session entry of the session being
\* closed and the global counters are the same after the step
C15_CloseKeepsUsage ==
  [][ ( \/ \E t \in Tasks :
             /\ call'[t] # call[t]
             /\ (call[t].op \in {"close", "cleanup"}
                   \/ call'[t].op \in {"close", "cleanup"})
        \/ (nStarted' # nStarted /\ returned'.op = "cleanup") )
      => /\ globalUsage' = globalUsage
         /\ perSessionUsage' = perSessionUsage ]_vars

C15_Witness ==
  /\ returned.op = "close"
  /\ returned.result = "success"
  /\ registry[returned.target].state = "ABSENT"
  /\ returned.target \in DOMAIN perSessionUsage
  /\ CallCountOf(perSessionUsage[returned.target].operations, "nav") >= 1
  /\ CallCountOf(globalUsage, "nav") >= 1

\* C18: when the replay fetch of a session.close ends, by totals, by "no
\* data" or by an error, the close returns its success result, and the
\* session had been cleaned up before the fetch started
C18_FetchFailureKeepsCloseSuccessful ==
  [][ \A t \in Tasks :
        (call[t].pc = "fetch" /\ call'[t].pc = "idle")
        => /\ call[t].cleanupSuccessful
           /\ returned'.op = "close"
           /\ returned'.target = call[t].target
           /\ returned'.result = "success" ]_vars

C18_Witness ==
  /\ returned.op = "close"
  /\ returned.failedAt = "fetch"
  /\ returned.cleanupErrorMessage = "boom"
  /\ returned.result = "success"
  /\ registry[returned.target].state = "ABSENT"

\* C21: when the replay fetch of a session.close returns (non-zero) totals,
\* the totals are folded into the usage meter: the usage snapshot after the
\* step differs from the snapshot before it
C21_ReplayTotalsFoldedIntoUsage ==
  [][ \A t \in Tasks :
        (/\ call[t].pc = "fetch"
         /\ call'[t].pc = "idle"
         /\ returned'.tokenUsageTotals = "totals")
        => getUsageSnapshot(globalUsage', perSessionUsage')
             # getUsageSnapshot(globalUsage, perSessionUsage) ]_vars

RECURSIVE Pow2(_)
Pow2(k) == IF k = 0 THEN 1 ELSE 2 * Pow2(k - 1)

\* C22: the retrying purge called with retries = r calls
\* clearScreenshotsForSession at most r + 1 times, does nothing more once an
\* attempt has succeeded or the wrapper has given up, gives up only after
\* r + 1 failed attempts and then throws the error of the last attempt, and
\* every purge that has started ends by returning or by throwing
C22_PurgeBounded ==
  /\ [](purge.pc # "idle" => purge.tries <= purge.retries + 1)
  /\ [](purge.pc = "threw" =>
          /\ purge.tries = purge.retries + 1
          /\ purge.thrown = purge.caught)
  /\ [][(purge.pc \in {"returned", "threw"} /\ purge' # purge)
          => purge' = PurgeIdle]_vars
  /\ (purge.pc = "attempt" ~> purge.pc \in {"returned", "threw"})

C22_Witness ==
  /\ purge.pc = "threw"
  /\ purge.retries >= 1
  /\ purge.tries = purge.retries + 1
  /\ purge.firstCaught # purge.caught
  /\ purge.thrown = purge.caught

\* C23: the k-th backoff wait of the retrying purge (k = 0 for the first) is
\* min(base * 2^k, cap), for every base delay passed in the options
C23_BackoffDoublesUpToCap ==
  \A k \in 1 .. Len(purge.waits) :
    purge.waits[k] = Min(purge.initialDelayMs * Pow2(k - 1), MaxDelayMs)

\* C24: an ensureStagehand call that finds the cached default handle defunct
\* (its remote session has ended, or its init() had failed) surfaces no
\* error for that: it goes on to open a new handle, and a handle returned
\* to a caller is a live one
C24_DefunctDefaultReopened ==
  [][ \A t \in Tasks :
        /\ (/\ ensureCall[t].pc = "evaluate"
            /\ handleState[ensureCall[t].h] = "closed"
            /\ ensureCall'[t] # ensureCall[t])
           => ensureCall'[t].pc = "init"
        /\ (/\ ensureCall[t].pc = "idle"
            /\ stagehand # 0
            /\ handleState[stagehand] = "initFailed"
            /\ ensureCall'[t] # ensureCall[t])
           => ensureCall'[t].ret.kind # "error"
        /\ (ensureCall'[t] # ensureCall[t] /\ ensureCall'[t].ret.kind = "ok")
           => handleState'[ensureCall'[t].ret.h] = "ready" ]_vars

C26_LookupCreatesOnlyWhenAsked ==
  [][ \A t \in Tasks :
        LET c == call[t]
            missing == /\ c.pc = "lookup"
                       /\ registry[c.target].state = "ABSENT"
                       /\ call'[t] # c
        IN /\ (c.op = "close" /\ missing)
              => /\ call'[t].pc = "idle"
                 /\ returned'.op = "close"
                 /\ returned'.lookup = "notFound"
                 /\ returned'.result = "info"
                 /\ registry' = registry
                 /\ opened' = opened
           /\ (c.op = "get" /\ missing)
              => /\ call'[t].pc = "opening"
                 /\ registry'[c.target].state = "CREATING"
           /\ (c.op = "get" /\ c.pc = "lookup" /\ call'[t].pc = "idle"
                 /\ returned'.result = "ok")
              => /\ returned'.op = "get"
                 /\ returned'.lookup = "found"
                 /\ registry'[c.target].state = "ACTIVE"
                 /\ registry'[c.target].alive ]_vars

\* a session.close of an id without a session found none and created none,
\* while a lookup with createIfMissing = true of the other id, which had no
\* session either, is handed the session it created
C26_Witness ==
  /\ returned.op = "close"
  /\ returned.lookup = "notFound"
  /\ returned.result = "info"
  /\ registry[returned.target].state = "ABSENT"
  /\ opened[returned.target] = 0
  /\ \E t \in Tasks :
       /\ call[t].op = "get" /\ call[t].pc = "lookup"
       /\ call[t].target # returned.target
       /\ call[t].arrival = "none"
       /\ call[t].session = 1
       /\ registry[call[t].target].state = "ACTIVE"
       /\ registry[call[t].target].remoteId = 1

C28_ResultFilteredByScope ==
  (usageLast.op = "usage.stats" /\ ~resetRequested(usageLast.params)) =>
    LET r == usageLast.result
        b == usageLast.before
        sid == usageLast.params.sessionId
        scope == usageLast.params.scope
        given == sid \notin {Undefined, ""}
        narrowed ==
          IF given
            THEN /\ DOMAIN r.perSession = {sid}
                 /\ r.perSession[sid].operations = OperationsOf(b.perSession, sid)
            ELSE r.perSession = b.perSession
    IN CASE scope = "global" ->
              /\ DOMAIN r = {"global"}
              /\ r.global = b.global
         [] scope = "perSession" ->
              /\ DOMAIN r = {"perSession"}
              /\ narrowed
         [] OTHER ->
              /\ DOMAIN r = {"global", "perSession"}
              /\ r.global = b.global
              /\ narrowed

\* two sessions have recorded calls and usage.stats is asked, with scope
\* "perSession", for a session that recorded nothing
C28_Witness ==
  /\ usageLast.op = "usage.stats"
  /\ ~resetRequested(usageLast.params)
  /\ usageLast.params.scope = "perSession"
  /\ usageLast.params.sessionId = "s3"
  /\ DOMAIN usageLast.before.perSession = UsageSessions
  /\ usageLast.result = [perSession |-> ("s3" :> [operations |-> EmptyMap])]

\* C29: every usage bucket that exists has callCount >= 1 and every session
\* that has an entry has a bucket; a session entry or a bucket (global or of
\* a session) appears only in the step of a record call for that session
\* and operation, so after a reset it is absent until such a call
C29_EntriesAbsentNotZero ==
  /\ [](/\ \A b \in AllBuckets : b.callCount >= 1
        /\ \A s \in DOMAIN perSessionUsage :
             DOMAIN perSessionUsage[s].operations # {})
  /\ [][ LET recorded(s, op) ==
              /\ usageLast'.op = "record"
              /\ usageLast'.before = getUsageSnapshot(globalUsage, perSessionUsage)
              /\ usageLast'.sessionId = s
              /\ usageLast'.operation = op
        IN /\ \A op \in DOMAIN globalUsage' \ DOMAIN globalUsage :
                \E s \in UsageSessions : recorded(s, op)
           /\ \A s \in DOMAIN perSessionUsage' :
                \A op \in DOMAIN perSessionUsage'[s].operations
                         \ DOMAIN OperationsOf(perSessionUsage, s) :
                  recorded(s, op) ]_vars

\* one call has been recorded since the last reset; usage.stats was asked
\* for a session that recorded nothing, and that session has no entry
C29_Witness ==
  /\ usageLast.op = "usage.stats"
  /\ usageLast.params.sessionId = "s3"
  /\ usageLast.params.scope = "perSession"
  /\ ~resetRequested(usageLast.params)
  /\ DOMAIN perSessionUsage = {"s1"}
  /\ nCalls = 1
  /\ "s3" \in DOMAIN usageLast.result.perSession

\* C30: the configuration resolveConfig returns has proxies = false when
\* the command line gives no proxies option, the proxies value given when it
\* gives one, and the context id when it gives one
C30_ConfigCarriesOptions ==
  cli.pc = "resolved" =>
    LET given == cli.cliOptions
        config == cli.config
    IN /\ "proxies" \in DOMAIN config.val
       /\ config.val.proxies =
            IF "proxies" \in DOMAIN given THEN given.proxies ELSE FALSE
       /\ "context" \in DOMAIN given =>
            /\ "context" \in DOMAIN config.val
            /\ config.val.context = given.context

\* C31: session.create without a sessionId (undefined or empty) or with the
\* default id takes the ensure-default path for the default id and resumes
\* nothing; with any other sessionId it takes createNewBrowserSession with
\* that id as the tracking id and as the remote id to resume; a create
\* call in flight carries one of these two routes
C31_CreateRoutesById ==
  /\ \A sessionId \in CreateParams :
       createRoute(sessionId) =
         IF sessionId \in {Undefined, "", DefaultSessionId}
           THEN [via |-> "ensureDefaultSessionInternal",
                 id |-> DefaultSessionId, resumeId |-> Undefined]
           ELSE [via |-> "createNewBrowserSession",
                 id |-> sessionId, resumeId |-> sessionId]
  /\ \A t \in Tasks :
       call[t].op = "create" =>
         IF call[t].target = DefaultSessionId
           THEN /\ call[t].via = "ensureDefaultSessionInternal"
                /\ call[t].resumeId = Undefined
           ELSE /\ call[t].via = "createNewBrowserSession"
                /\ call[t].resumeId = call[t].target

\* one create is opening the default session, another is resuming "X"
C31_Witness ==
  \E t, u \in Tasks :
    /\ call[t].op = "create" /\ call[t].pc = "opening"
    /\ call[t].via = "ensureDefaultSessionInternal"
    /\ call[t].target = DefaultSessionId
    /\ call[u].op = "create" /\ call[u].pc = "opening"
    /\ call[u].via = "createNewBrowserSession"
    /\ call[u].target = "X" /\ call[u].resumeId = "X"

\* C32: a session.close is fetching the replay only after cleanupSession
\* returned for a session that was found and has a remote id, and it does
\* so at most once; a close that found no live session has called neither
\* cleanupSession nor the fetcher
C32_ReplayFetchOnlyAfterCleanup ==
  /\ [](\A t \in Tasks :
          /\ call[t].fetches <= 1
          /\ call[t].pc = "fetch" =>
               /\ call[t].op = "close"
               /\ call[t].lookup = "found"
               /\ call[t].cleanupSuccessful
               /\ call[t].session # 0
               /\ call[t].fetches = 1)
  /\ [](returned.op = "close" =>
          /\ returned.fetches <= 1
          /\ returned.lookup # "found" => returned.fetches = 0)
  /\ [][ \A t \in Tasks :
          /\ (call[t].pc # "fetch" /\ call'[t].pc = "fetch")
             => /\ call[t].pc = "purging"
                /\ call[t].raised = NoError
                /\ purge.pc \in {"returned", "threw"}
          /\ (/\ call[t].op = "close" /\ call[t].pc = "lookup"
              /\ lookupMode(registry[call[t].target], call[t].target, FALSE)
                   \in {"notFound", "expired"}
              /\ call'[t] # call[t])
             => /\ call'[t].pc = "idle"
                /\ purge' = purge
                /\ returned'.fetches = 0 ]_vars

\* a close cleaned up a session without a remote id and fetched nothing
C32_Witness ==
  /\ returned.op = "close"
  /\ returned.lookup = "found"
  /\ returned.result = "success"
  /\ returned.fetches = 0
  /\ registry[returned.target].state = "ABSENT"

\* C33: a cached default handle is replaced only by a call whose validity
\* check failed with an Error whose message contains one of the three
\* phrases; a check that fails with anything else ends the call with that
\* error and leaves the cached handle as it was
C33_ReplacedOnlyOnSessionGone ==
  [][ /\ (stagehand # 0 /\ stagehand' # stagehand) =>
          \E t \in Tasks :
            /\ ensureCall[t].pc = "evaluate"
            /\ ensureCall'[t].pc = "init"
            /\ ensureCall'[t].ret.error.isError
            /\ \E i \in 1 .. Len(ensureCall'[t].ret.error.message) :
                 ensureCall'[t].ret.error.message[i] \in
                   {"Target page, context or browser has been closed",
                    "Session expired", "context destroyed"}
      /\ \A t \in Tasks :
            (/\ ensureCall[t].pc = "evaluate"
             /\ ensureCall'[t] # ensureCall[t]
             /\ ensureCall'[t].ret.error \in
                  { e \in CheckErrors :
                      \/ ~e.isError
                      \/ \A i \in 1 .. Len(e.message) :
                           e.message[i] \notin
                             {"Target page, context or browser has been closed",
                              "Session expired", "context destroyed"} })
            => /\ ensureCall'[t].pc = "idle"
               /\ ensureCall'[t].ret.kind = "error"
               /\ stagehand' = stagehand
               /\ handleState' = handleState ]_vars

\* one call replaced the cached handle after "context destroyed" and another
\* was ended by an error that is not an Error object
C33_Witness ==
  \E t, u \in Tasks :
    /\ ensureCall[t].pc = "init"
    /\ ensureCall[t].ret.error.message = <<"Execution ", "context destroyed">>
    /\ stagehand = ensureCall[t].h
    /\ stagehand > 1
    /\ ensureCall[u].ret.kind = "error"
    /\ ~ensureCall[u].ret.error.isError
    /\ ensureCall[u].ret.error.message = <<"Session expired">>

\* C34: after any sequence of registerScreenshot, clearScreenshotsForSession
\* and clearAllScreenshots calls, a name is a key of the screenshots map
\* exactly when it is in the name set of some session
C34_StoreMatchesIndex ==
  purge = PurgeIdle =>
    \A n \in ScreenshotNames :
      n \in DOMAIN screenshots
        <=> \E s \in DOMAIN sessionIdToScreenshotNames :
              n \in sessionIdToScreenshotNames[s]

\* the four counters of a key: the call count and the tool count of the
\* operation, in the global map and in the session's map
FourCounters(g, p, r) ==
  <<CallCountOf(g, r.operation),
    ToolCountOf(g, r.operation, r.toolName),
    CallCountOf(OperationsOf(p, r.sessionId), r.operation),
    ToolCountOf(OperationsOf(p, r.sessionId), r.operation, r.toolName)>>

\* C35: the asynchronous recordStagehandCall raises each of the four
\* counters of its key by exactly one before it waits for the metrics, and
\* the end of that wait, failed or not, changes no counter: two concurrent
\* calls with one key have raised each counter by two, and a call whose
\* metrics read failed is counted once
C35_CountedBeforeSuspending ==
  /\ [][ \A t \in Tasks :
          /\ (recording[t].pc = "idle" /\ recording'[t].pc = "logging") =>
               \A i \in 1 .. 4 :
                 FourCounters(globalUsage', perSessionUsage', recording'[t])[i]
                   = FourCounters(globalUsage, perSessionUsage,
                                  recording'[t])[i] + 1
          /\ (recording[t].pc = "logging" /\ recording'[t].pc = "idle") =>
               /\ globalUsage' = globalUsage
               /\ perSessionUsage' = perSessionUsage ]_vars
  /\ [](\A t \in Tasks :
          (/\ recording[t].settled = "rejected"
           /\ ~recording[t].cleared
           /\ nCalls = 1)
          => FourCounters(globalUsage, perSessionUsage, recording[t])
               = <<1, 1, 1, 1>>)
  /\ [](\A t, u \in Tasks :
          (/\ t # u
           /\ recording[t].sessionId # Undefined /\ ~recording[t].cleared
           /\ recording[u].sessionId # Undefined /\ ~recording[u].cleared
           /\ recording[t].sessionId = recording[u].sessionId
           /\ recording[t].toolName = recording[u].toolName
           /\ recording[t].operation = recording[u].operation
           /\ nCalls = 2)
          => FourCounters(globalUsage, perSessionUsage, recording[t])
               = <<2, 2, 2, 2>>)

\* two calls with one key were in flight together; the metrics read of one
\* failed while the other was still waiting
C35_Witness ==
  \E t, u \in Tasks :
    /\ recording[t].settled = "rejected" /\ ~recording[t].cleared
    /\ recording[u].pc = "logging" /\ ~recording[u].cleared
    /\ recording[t].sessionId = recording[u].sessionId
    /\ recording[t].toolName = recording[u].toolName
    /\ recording[t].operation = recording[u].operation
    /\ nCalls = 2
    /\ FourCounters(globalUsage, perSessionUsage, recording[t]) = <<2, 2, 2, 2>>

\* C36: createChatCompletion with a response schema sends at most
\* retries + 1 requests, 4 when retries is not given; every response that is
\* not JSON or does not match the schema costs one retry; the call ends with
\* CreateChatCompletionResponseError when such a response arrives with no
\* retry left; a response without content ends it at once, with that error
\* and no further request
C36_RequestsBoundedByRetries ==
  /\ [](chat.schema =>
         /\ chat.retries >= 0
         /\ chat.requests + chat.retries
              = (IF "retries" \in DOMAIN chat.given
                   THEN chat.given.retries ELSE 3) + 1
         /\ "retries" \notin DOMAIN chat.given => chat.requests <= 4
         /\ chat.result \in {"throwParse", "throwSchema"} => chat.retries = 0)
  /\ [][ \A content \in ChatContents :
          (/\ chat.pc = "awaiting" /\ chat.schema
           /\ chat' # chat
           /\ chat'.content = content
           /\ chat'.result # "throwApiError")
          => IF content.typeof = "null"
               THEN /\ chat'.pc = "idle"
                    /\ chat'.result = "throwNoContent"
                    /\ chat'.requests = chat.requests
                    /\ chat'.retries = chat.retries
             ELSE IF content.value \in {"{\"ok\":true}"}
               THEN /\ chat'.pc = "idle"
                    /\ chat'.result = "return"
                    /\ chat'.requests = chat.requests
             ELSE IF chat.retries = 0
               THEN /\ chat'.pc = "idle"
                    /\ chat'.result \in CreateChatCompletionResponseError
                    /\ chat'.requests = chat.requests
             ELSE /\ chat'.pc = "awaiting"
                  /\ chat'.retries = chat.retries - 1
                  /\ chat'.requests = chat.requests + 1 ]_vars

\* a call without a retries option ended with the error after four requests
C36_Witness ==
  /\ chat.pc = "idle"
  /\ chat.schema
  /\ "retries" \notin DOMAIN chat.given
  /\ chat.requests = 4
  /\ chat.result = "throwSchema"

\* C3: two createOrResumeSession calls for one id, the second arriving
\* while the creation started by the first is in flight, receive the same
\* remote session, and exactly one remote session was opened for the id
C3_ConcurrentCreatesShareSession ==
  \A t, u \in Tasks :
    (/\ t # u
     /\ call[t].op = "create" /\ call[t].pc = "debug"
     /\ call[u].op = "create" /\ call[u].pc = "debug"
     /\ call[t].target = call[u].target
     /\ call[t].arrivedAt = call[u].arrivedAt
     /\ call[t].arrival # "live"
     /\ call[u].arrival = "creating")
    => /\ call[t].session = call[u].session
       /\ call[u].session = call[u].arrivedAt + 1
       /\ opened[call[u].target] = call[u].arrivedAt + 1

C3_Witness ==
  \E t, u \in Tasks :
    /\ call[t].op = "create" /\ call[t].pc = "debug"
    /\ call[u].op = "create" /\ call[u].pc = "debug"
    /\ call[t].target = "X" /\ call[u].target = "X"
    /\ call[t].arrival = "none" /\ call[u].arrival = "creating"
    /\ call[t].arrivedAt = call[u].arrivedAt
    /\ call[t].session = call[u].session

\* C5: cleanupSession(id) for an id without a session (never opened, or
\* already cleaned up) changes neither the registry, the active id nor the
\* store and returns without error; session.close that finds no session
\* returns the informational result
C5_CleanupIdempotent ==
  [][ /\ \A id \in SessionIds :
           ( /\ registry[id].state = "ABSENT"
             /\ nStarted' = nStarted + 1
             /\ call' = call
             /\ returned'.op = "cleanup"
             /\ returned'.target = id )
           => /\ registry' = registry
              /\ currentSessionId' = currentSessionId
              /\ storeVars' = storeVars
              /\ returned'.result = "ok"
      /\ \A t \in Tasks :
           ( /\ call[t].op = "close" /\ call[t].pc = "lookup"
             /\ registry[call[t].target].state = "ABSENT"
             /\ call'[t].pc = "idle" )
           => /\ registry' = registry
              /\ returned'.op = "close"
              /\ returned'.result = "info" ]_vars

C5_Witness ==
  /\ returned.op = "cleanup"
  /\ returned.lookup = "notFound"
  /\ returned.result = "ok"
  /\ opened[returned.target] > 0
  /\ registry[returned.target].state = "ABSENT"

C10_RemovedDespitePurgeFailure ==
  [][ \A t \in Tasks :
        ( /\ call[t].pc = "purging"
          /\ purge.pc = "threw"
          /\ purge.sessionId = call[t].target
          /\ call'[t].pc # "purging" )
        => registry'[call[t].target].state = "ABSENT" ]_vars

C10_Witness ==
  \E t \in Tasks :
    /\ call[t].pc = "fetch"
    /\ call[t].purgeFailed
    /\ registry[call[t].target].state = "ABSENT"

Init ==
  /\ UsageInit /\ StoreInit /\ EnsureInit /\ SessionInit /\ ReplayInit
  /\ ConfigInit /\ ChatInit

SpecUsage == Init /\ [][UsageNext]_vars

SpecUsageAsync == Init /\ [][UsageAsyncNext]_vars

SpecUsageConcurrent == Init /\ [][UsageConcurrentNext]_vars

SpecStore == Init /\ [][StoreNext]_vars

\* the attempt is synchronous code and the backoff timer fires
SpecPurge ==
  /\ Init
  /\ [][PurgeNext]_vars
  /\ WF_vars(retryAttemptSucceeds \/ StoreRetryAttemptFails)
  /\ WF_vars(retryWake)

SpecEnsure == Init /\ [][EnsureNext]_vars

SpecGetSession == Init /\ [][GetSessionNext]_vars

SpecClose == Init /\ [][CloseNext]_vars

SpecSession == Init /\ [][SessionNext]_vars

SpecSessionUsage == Init /\ [][SessionUsageNext]_vars

SpecConfig == Init /\ [][ConfigNext]_vars

SpecReplay == Init /\ [][ReplayNext]_vars

SpecChat == Init /\ [][ChatNext]_vars

====
